---- MODULE Spec2Model ----
(***************************************************************************)
(* Voice conversation pipeline of the Peakflo voice agent prototype, in    *)
(* its two implementations:                                                *)
(*   v1  src/src/modules/stt.ts (POST route), src/unnamed/part_001         *)
(*       (handleVoiceConversation), src/src/lib/errors.ts                  *)
(*   v2  src/v2/src/app/api/v1/auth/login/route.ts (handleConversation),   *)
(*       src/v2/src/lib/errors.ts, src/v2/src/lib/audio.ts                 *)
(* SpecRetry exercises retryWithBackoff alone against a scripted           *)
(* operation; Spec runs one voice request through either pipeline;         *)
(* SpecSessions interleaves getOrCreateSession calls of two requests;      *)
(* SpecHistory runs saveMessage and getConversationHistory on the store.   *)
(***************************************************************************)
EXTENDS Integers, Sequences, FiniteSets, TLC

VARIABLES
    ver,    \* which implementation runs: "v1" or "v2"
    pc,     \* position of the handler
    rw,     \* state of the running retryWithBackoff call
    req,    \* the request being served
    loc,    \* local variables of the handler
    fs,     \* temp files that exist on disk
    store,  \* the durable store: sessions, messages, clock
    prov,   \* calls made to the three providers and to the three wrappers' operations
    resp,   \* the response delivered to the caller
    script, \* SpecRetry: what each call of the scripted operation did
    conc    \* SpecSessions, SpecHistory: the store calls in progress

vars == <<ver, pc, rw, req, loc, fs, store, prov, resp, script, conc>>

Versions == {"v1", "v2"}

\* ---------------------------------------------------------------- bounds

\* Largest maxRetries handed to retryWithBackoff in SpecRetry.
MaxRetriesBound == 2

\* ------------------------------------------------------------- constants

\* maxRetries passed by both pipelines.
PipelineRetries == 2
\* v1 waits a fixed 500 ms between attempts.
V1DelayMs == 500
\* v2 waits 2^attempt * 1000 ms.
V2BaseMs == 1000
\* Reply length ceiling of synthesizeSpeech.
TtsMaxChars == 4096
\* 25 MiB expressed in MiB; sizes in the model are in bytes.
MaxAudioMB == 25
MaxBytes == MaxAudioMB * 1024 * 1024
\* Longest audio validateAudio accepts, seconds.
MaxDurationS == 300
\* handleVoiceConversation / handleConversation load this many messages.
HistoryLimit == 20
\* conversationHistory.slice(-10)
PromptHistory == 10

\* ------------------------------------------------------------- errors

\* A thrown value. shape says where it carries an HTTP status:
\*   "none"  nowhere            "top"  error.status
\*   "resp"  error.response.status     "both"  in both places
\* code is that status (0 when shape = "none"); isErr is `instanceof Error`;
\* id is the call that produced it; wrapped marks a `new Error(...)` built
\* from it; msg is the set of marker substrings its message contains.
Shapes == {"none", "top", "resp", "both"}
StatusCodes == {399, 400, 429, 499, 500}
Markers == {"Connection error", "timeout", "ECONNREFUSED", "ETIMEDOUT",
            "Invalid", "required", "exceeds", "rate"}

NoError == [shape |-> "none", code |-> 0, isErr |-> FALSE, id |-> 0,
            wrapped |-> FALSE, msg |-> {}]

MkError(shape, code, isErr, id, msg) ==
    [shape |-> shape, code |-> IF shape = "none" THEN 0 ELSE code,
     isErr |-> isErr, id |-> id, wrapped |-> FALSE, msg |-> msg]

HasTop(e) == e.shape \in {"top", "both"}
HasResp(e) == e.shape \in {"resp", "both"}

\* `new Error(String(error))` / `new Error(prefix + message)`: a fresh Error
\* object that carries no status; the text of the old message is kept.
NewErrorFrom(e) ==
    [shape |-> "none", code |-> 0, isErr |-> TRUE, id |-> e.id,
     wrapped |-> TRUE, msg |-> e.msg]

\* ------------------------------------------------------ texts and store

\* A text: its length, whether it is all whitespace, and a tag telling texts
\* apart. NullText is `null` (no content in the provider's answer).
Text(tag, len, ws) == [tag |-> tag, len |-> len, ws |-> ws, null |-> FALSE]
NullText == [tag |-> "null", len |-> 0, ws |-> FALSE, null |-> TRUE]
NoText == [tag |-> "none", len |-> 0, ws |-> FALSE, null |-> TRUE]

\* !text
Falsy(t) == t.null \/ t.len = 0
\* text.trim().length === 0
TrimEmpty(t) == t.len = 0 \/ t.ws

Caller == "u1"
OtherUser == "u2"

\* The store before the request: the caller's session s1 holds one earlier
\* turn, written a millisecond apart; s2 belongs to another user.
InitialStore ==
    [sessions |-> [sid \in {"s1", "s2"} |->
                     [userId |-> IF sid = "s1" THEN Caller ELSE OtherUser,
                      lastActivityAt |-> 0]],
     messages |-> << [sessionId |-> "s1", role |-> "user",
                      content |-> Text("old1", 5, FALSE), createdAt |-> 0],
                     [sessionId |-> "s1", role |-> "assistant",
                      content |-> Text("old2", 9, FALSE), createdAt |-> 1] >>,
     clock |-> 2]

\* Id the store gives the next session it creates.
NewSessionId == "s3"

\* ------------------------------------------------- retryWithBackoff

\* v1: const status = error.status; status && status >= 400 && status < 500
\* Faulty variant: the lower bound is exclusive, so 400 is retried.
IsClientErrorV1Off(e) == HasTop(e) /\ e.code # 0 /\ e.code > 400 /\ e.code < 500
IsClientErrorV1(e) == HasTop(e) /\ e.code # 0 /\ e.code >= 400 /\ e.code < 500

\* v2: const status = error?.response?.status; status != null && status < 500
IsTerminalV2(e) == HasResp(e) /\ e.code < 500

IsTerminal(v, e) == IF v = "v1" THEN IsClientErrorV1(e) ELSE IsTerminalV2(e)

RECURSIVE Pow2(_)
Pow2(n) == IF n = 0 THEN 1 ELSE 2 * Pow2(n - 1)

\* Delay before the next attempt, after the failed attempt number `attempt`.
\* Faulty variant: v2 sleeps the fixed delay of v1.
BackoffDelayFlat(v, attempt) == V1DelayMs
BackoffDelay(v, attempt) ==
    IF v = "v1" THEN V1DelayMs ELSE Pow2(attempt) * V2BaseMs

\* lastError = error instanceof Error ? error : new Error(String(error))  (v1)
\* lastError = error                                                      (v2)
LastErrorOf(v, e) == IF v = "v1" /\ ~e.isErr THEN NewErrorFrom(e) ELSE e

\* State of one retryWithBackoff call: the loop's variables, plus the number
\* of calls of the operation made so far and the delays slept so far.
RetryInit(maxRetries) ==
    [maxRetries |-> maxRetries, attempt |-> 0, calls |-> 0, waits |-> <<>>,
     lastError |-> NoError, state |-> "running",
     value |-> NoText, raised |-> NoError]

RetryIdle == [RetryInit(0) EXCEPT !.state = "idle"]

\* An outcome of one call of the operation.
Ok(val) == [ok |-> TRUE, val |-> val, err |-> NoError]
Fail(e) == [ok |-> FALSE, val |-> NoText, err |-> e]

\* Faulty variant: the loop runs while attempt <= maxRetries + 1.
RetryStepNoCap(v, r, out) ==
    LET called == [r EXCEPT !.calls = @ + 1] IN
    IF out.ok THEN [called EXCEPT !.state = "returned", !.value = out.val]
    ELSE IF IsTerminal(v, out.err)
    THEN [called EXCEPT !.state = "thrown", !.raised = out.err,
                        !.lastError = LastErrorOf(v, out.err)]
    ELSE [called EXCEPT !.lastError = LastErrorOf(v, out.err),
                        !.attempt = @ + 1,
                        !.waits = Append(@, BackoffDelay(v, r.attempt)),
                        !.state = IF r.attempt < r.maxRetries + 1
                                  THEN "running" ELSE "thrown",
                        !.raised = IF r.attempt < r.maxRetries + 1
                                   THEN NoError ELSE LastErrorOf(v, out.err)]

\* One iteration of the for loop: the operation was called and did `out`.
RetryStep(v, r, out) ==
    LET called == [r EXCEPT !.calls = @ + 1] IN
    IF out.ok THEN [called EXCEPT !.state = "returned", !.value = out.val]
    ELSE IF IsTerminal(v, out.err)
    THEN [called EXCEPT !.state = "thrown", !.raised = out.err,
                        !.lastError = LastErrorOf(v, out.err)]
    ELSE IF r.attempt < r.maxRetries
    THEN [called EXCEPT !.lastError = LastErrorOf(v, out.err),
                        !.attempt = @ + 1,
                        !.waits = Append(@, BackoffDelay(v, r.attempt))]
    ELSE [called EXCEPT !.lastError = LastErrorOf(v, out.err),
                        !.attempt = @ + 1,
                        !.state = "thrown",
                        !.raised = LastErrorOf(v, out.err)]

\* ---------------------------------------------------------- idle values

NoRequest == [auth |-> "none", key |-> "none", lookupMsg |-> {},
              hasAudio |-> FALSE, size |-> 0, mime |-> "none",
              sessionId |-> "none"]
NoLocals == [audioFilePath |-> "none", preparedPath |-> "none",
             activeSessionId |-> "none", transcript |-> NoText,
             history |-> <<>>, responseText |-> NoText, failedAt |-> "none",
             probe |-> "none"]
NoCalls == [stt |-> 0, llm |-> 0, tts |-> 0, first4xx |-> {},
            transcribeAudio |-> 0, generateResponse |-> 0, synthesizeSpeech |-> 0,
            saveMessage |-> 0, sttEmpty |-> 0, llmEmpty |-> 0,
            llmNot503 |-> FALSE, last |-> [kind |-> "none", code |-> 0]]
NoResponse == [sent |-> FALSE, status |-> 0, error |-> "none", audio |-> FALSE,
               sessionId |-> "none", message |-> "none"]
EmptyStore == [sessions |-> <<>>, messages |-> <<>>, clock |-> 0]

\* ============================================================ the pipelines

\* ------------------------------------------------------ audio validation

ALLOWED_TYPES == {"audio/wav", "audio/mpeg", "audio/mp3", "audio/webm",
                  "audio/ogg", "audio/flac", "audio/x-wav", "audio/wave"}
ALLOWED_MIMES == {"audio/wav", "audio/mpeg", "audio/mp3", "audio/webm",
                  "audio/ogg", "audio/flac", "audio/x-wav", "audio/wave"}
isAllowedMime(mimetype) == mimetype \in ALLOWED_MIMES

\* What ffprobe does with the uploaded file: prints a duration, prints
\* something that is no number, or fails (corrupt file, tool missing).
ProbeOutcomes ==
    {[kind |-> "ok", duration |-> d] : d \in {3, MaxDurationS, MaxDurationS + 1}}
    \cup {[kind |-> "nan", duration |-> 0], [kind |-> "fail", duration |-> 0]}

\* v1 validateAudio: size, then duration when ffprobe yields one; a failing
\* probe is skipped. Returns whether the file is valid.
validateAudioV1(exists, size, probe) ==
    IF ~exists THEN FALSE
    ELSE IF size > MaxBytes THEN FALSE
    ELSE IF probe.kind = "fail" THEN TRUE
    ELSE IF probe.kind = "ok" /\ probe.duration > MaxDurationS THEN FALSE
    ELSE TRUE

\* Faulty variant: v2 validateAudio without the size check.
validateAudioV2NoSize(exists, size, probe) ==
    IF ~exists THEN FALSE
    ELSE IF probe.kind = "fail" THEN FALSE
    ELSE IF probe.kind = "nan" \/ probe.duration > MaxDurationS THEN FALSE
    ELSE TRUE
\* v2 validateAudio: size, then the probe must yield a duration <= 300.
validateAudioV2(exists, size, probe) ==
    IF ~exists THEN FALSE
    ELSE IF size > MaxBytes THEN FALSE
    ELSE IF probe.kind = "fail" THEN FALSE
    ELSE IF probe.kind = "nan" \/ probe.duration > MaxDurationS THEN FALSE
    ELSE TRUE

\* ------------------------------------------------------------ transcoding

\* outputPath = inputPath + ".wav"
OutputPath(inputPath) == "upload.wav"

\* What ffmpeg does: writes the output and exits 0; fails leaving nothing;
\* fails after it has created the output file.
FfmpegOutcomes == {"ok", "fail", "fail_with_output"}

\* v1 prepareAudioForWhisper: on success deletes the input and returns the
\* output path; on any failure returns the input path. [path, files, threw]
prepareAudioForWhisperV1(inputPath, files, ffmpeg) ==
    IF ffmpeg = "ok"
    THEN [path |-> OutputPath(inputPath),
          files |-> (files \cup {OutputPath(inputPath)}) \ {inputPath},
          threw |-> FALSE]
    ELSE [path |-> inputPath,
          files |-> IF ffmpeg = "fail_with_output"
                    THEN files \cup {OutputPath(inputPath)} ELSE files,
          threw |-> FALSE]

\* v2 prepareAudioForWhisper: the same conversion, but a failing ffmpeg
\* makes it throw.
prepareAudioForWhisperV2(inputPath, files, ffmpeg) ==
    IF ffmpeg = "ok"
    THEN [path |-> OutputPath(inputPath),
          files |-> (files \cup {OutputPath(inputPath)}) \ {inputPath},
          threw |-> FALSE]
    ELSE [path |-> "none",
          files |-> IF ffmpeg = "fail_with_output"
                    THEN files \cup {OutputPath(inputPath)} ELSE files,
          threw |-> TRUE]

\* cleanupFile (v1) / unlink(path).catch(() => {}) (v2): the file is gone
\* afterwards; a missing file or a null path is no error.
cleanupFile(files, filePath) == files \ {filePath}

\* ------------------------------------------------------ error responses

\* A JSON error body {error, message} with a message text written in the
\* code.
Response(status, code) ==
    [sent |-> TRUE, status |-> status, error |-> code, audio |-> FALSE,
     sessionId |-> "none", message |-> "fixed"]

\* The same with `message: err.message`, the text of the error caught.
WithErrorMessage(r) == [r EXCEPT !.message = "error.message"]

\* v1 handleApiError: by error.status, then by substrings of the message;
\* NODE_ENV is not "development".
handleApiError(e) ==
    IF HasTop(e) /\ e.code # 0 /\ e.code = 429
    THEN Response(429, "RATE_LIMIT_EXCEEDED")
    ELSE IF HasTop(e) /\ e.code # 0 /\ e.code = 401
    THEN Response(500, "INVALID_OPENAI_KEY")
    ELSE IF e.msg \cap {"Connection error", "timeout", "ECONNREFUSED", "ETIMEDOUT"} # {}
    THEN Response(502, "CONNECTION_ERROR")
    ELSE IF e.msg \cap {"Invalid", "required", "exceeds"} # {}
    THEN WithErrorMessage(Response(400, "VALIDATION_ERROR"))
    ELSE Response(500, "INTERNAL_SERVER_ERROR")

\* v2 handleConversation, catch block: 429 when the message contains "rate"
\* or error.status is 429, else 500; the body carries the error's message.
V2CatchResponse(e) ==
    IF "rate" \in e.msg \/ (HasTop(e) /\ e.code = 429)
    THEN WithErrorMessage(Response(429, "RATE_LIMIT_EXCEEDED"))
    ELSE WithErrorMessage(Response(500, "INTERNAL_SERVER_ERROR"))

\* ------------------------------------------------------------- providers

\* What a provider does with one call: answers with a text (the recognised
\* text, the generated reply, the audio), rejects with an HTTP status, or the
\* connection fails. msg: the marker substrings of the error text.
Answer(t) == [kind |-> "ok", text |-> t, code |-> 0, msg |-> {}]
Reject(code, msg) == [kind |-> "reject", text |-> NoText, code |-> code, msg |-> msg]
NetworkFailure(msg) == [kind |-> "network", text |-> NoText, code |-> 0, msg |-> msg]
ProviderFailures ==
    {Reject(400, {}), Reject(400, {"Invalid"}), Reject(401, {}),
     Reject(429, {}), Reject(429, {"rate"}), Reject(503, {}), Reject(503, {"rate"}),
     NetworkFailure({"Connection error"}), NetworkFailure({"timeout"})}

Transcripts == {Text("transcript", 11, FALSE), Text("transcript", 0, FALSE),
                Text("transcript", 3, TRUE)}
Replies == {Text("reply", 12, FALSE), Text("reply", 0, FALSE),
            Text("reply", 2, TRUE), Text("reply", TtsMaxChars, FALSE),
            Text("reply", TtsMaxChars + 1, FALSE), NullText}
AudioBuffer == Text("audio", 2048, FALSE)

SttOutcomes == {Answer(t) : t \in Transcripts} \cup ProviderFailures
LlmOutcomes == {Answer(t) : t \in Replies} \cup ProviderFailures
TtsOutcomes == {Answer(AudioBuffer)} \cup ProviderFailures

\* The error object the OpenAI SDK throws: status at error.status.
SdkError(po, id) ==
    IF po.kind = "reject" THEN MkError("top", po.code, TRUE, id, po.msg)
    ELSE MkError("none", 0, TRUE, id, po.msg)

\* A `new Error(text)` thrown by the code itself.
LocalError(id, msg) == MkError("none", 0, TRUE, id, msg)

\* v1 transcribeAudio: every failure is rethrown as a new Error; a timeout
\* or connection error gets the fixed text "STT timed out - ...".
transcribeAudioV1(po, id) ==
    IF po.kind = "ok" THEN Ok(po.text)
    ELSE IF po.msg \cap {"timeout", "Connection error"} # {}
    THEN Fail(LocalError(id, {}))
    ELSE Fail(NewErrorFrom(SdkError(po, id)))

\* v2 transcribeAudio (axios, validateStatus: () => true): a non-200 answer
\* becomes new Error(message); a connection failure is axios' error, which
\* has no response.
transcribeAudioV2(po, id) ==
    IF po.kind = "ok" THEN Ok(po.text)
    ELSE Fail(LocalError(id, po.msg))

\* v1 generateResponse: an empty reply throws; every failure is rethrown as
\* new Error("LLM failed: " + message).
generateResponseV1(po, id) ==
    IF po.kind = "ok"
    THEN IF Falsy(po.text) THEN Fail(NewErrorFrom(LocalError(id, {})))
         ELSE Ok(po.text)
    ELSE Fail(NewErrorFrom(SdkError(po, id)))

\* v2 generateResponse: content ?? '' ; SDK errors pass through.
generateResponseV2(po, id) ==
    IF po.kind = "ok"
    THEN IF po.text.null THEN Ok(Text("reply", 0, FALSE)) ELSE Ok(po.text)
    ELSE Fail(SdkError(po, id))

\* synthesizeSpeech calls the provider only for a text it accepts.
synthesizeCallsProviderV1(text) ==
    ~Falsy(text) /\ ~TrimEmpty(text) /\ text.len <= TtsMaxChars
synthesizeCallsProviderV2(text) == text.len <= TtsMaxChars
synthesizeCallsProvider(v, text) ==
    IF v = "v1" THEN synthesizeCallsProviderV1(text)
    ELSE synthesizeCallsProviderV2(text)

\* v1 synthesizeSpeech: local rejections and provider failures alike are
\* rethrown as new Error("TTS failed: " + message).
synthesizeSpeechV1(text, po, id) ==
    IF Falsy(text) \/ TrimEmpty(text)
    THEN Fail(NewErrorFrom(LocalError(id, {"required"})))
    ELSE IF text.len > TtsMaxChars
    THEN Fail(NewErrorFrom(LocalError(id, {"exceeds"})))
    ELSE IF po.kind = "ok" THEN Ok(po.text)
    ELSE Fail(NewErrorFrom(SdkError(po, id)))

\* v2 synthesizeSpeech: the length check, then the provider; SDK errors
\* pass through.
synthesizeSpeechV2(text, po, id) ==
    IF text.len > TtsMaxChars THEN Fail(LocalError(id, {"exceeds"}))
    ELSE IF po.kind = "ok" THEN Ok(po.text)
    ELSE Fail(SdkError(po, id))

\* Faulty variant: an empty transcript is rejected inside the operation, so
\* the wrapper retries it.
transcribeAudioEmptyThrows(v, po, id) ==
    IF po.kind = "ok" /\ TrimEmpty(po.text) THEN Fail(LocalError(id, {}))
    ELSE IF v = "v1" THEN transcribeAudioV1(po, id) ELSE transcribeAudioV2(po, id)
transcribeAudio(v, po, id) ==
    IF v = "v1" THEN transcribeAudioV1(po, id) ELSE transcribeAudioV2(po, id)
generateResponse(v, po, id) ==
    IF v = "v1" THEN generateResponseV1(po, id) ELSE generateResponseV2(po, id)
synthesizeSpeech(v, text, po, id) ==
    IF v = "v1" THEN synthesizeSpeechV1(text, po, id)
    ELSE synthesizeSpeechV2(text, po, id)

\* ----------------------------------------------------------------- store

\* What the store does with one operation: performs it, or fails with an
\* error whose text contains the markers msg.
StoreTexts == {{}, {"ECONNREFUSED"}}
DbOutcomes == {[ok |-> TRUE, msg |-> {}]} \cup
              {[ok |-> FALSE, msg |-> m] : m \in StoreTexts}
StoreError(msg) == LocalError(0, msg)

\* Session ids a request may carry: none, the caller's session, another
\* user's session, an unknown id, a string that is no ObjectId.
SessionIds == {"none", "s1", "s2", "s9", "bad"}
IsObjectId(sessionId) == sessionId # "bad"

\* Faulty variant: the session is looked up by id alone.
getSessionAnyOwner(v, st, sessionId, userId) ==
    IF ~IsObjectId(sessionId)
    THEN [found |-> FALSE, threw |-> (v = "v1")]
    ELSE [found |-> sessionId \in DOMAIN st.sessions, threw |-> FALSE]
\* getSession(sessionId, userId): the session with that id owned by userId.
\* v1 hands the id to mongoose, whose cast of a malformed id throws; v2
\* catches new ObjectId's error and answers null. [found, threw]
getSession(v, st, sessionId, userId) ==
    IF ~IsObjectId(sessionId)
    THEN [found |-> FALSE, threw |-> (v = "v1")]
    ELSE [found |-> /\ sessionId \in DOMAIN st.sessions
                    /\ st.sessions[sessionId].userId = userId,
          threw |-> FALSE]

\* insertOne / Session.create: a new session whose lastActivityAt is the
\* time read by the caller.
insertSession(st, id, userId, now) ==
    [st EXCEPT !.sessions = @ @@ (id :> [userId |-> userId, lastActivityAt |-> now])]

\* updateOne / findByIdAndUpdate: $set lastActivityAt to the time the caller
\* read; an id that matches no session changes nothing.
touchSession(st, id, now) ==
    IF id \in DOMAIN st.sessions
    THEN [st EXCEPT !.sessions[id].lastActivityAt = now]
    ELSE st

createSession(st, userId) ==
    [insertSession(st, NewSessionId, userId, st.clock) EXCEPT !.clock = @ + 1]

\* getOrCreateSession(userId, sessionId): [threw, lookup, err, id, store];
\* lookup marks an error raised by the lookup of the supplied id.
getOrCreateSession(v, st, userId, sessionId, db) ==
    IF ~db.ok
    THEN [threw |-> TRUE, lookup |-> FALSE, err |-> StoreError(db.msg),
          id |-> "none", store |-> st]
    ELSE IF sessionId # "none" /\ getSession(v, st, sessionId, userId).threw
    THEN [threw |-> TRUE, lookup |-> TRUE, err |-> StoreError({}),
          id |-> "none", store |-> st]
    ELSE IF sessionId # "none" /\ getSession(v, st, sessionId, userId).found
    THEN [threw |-> FALSE, lookup |-> FALSE, err |-> NoError, id |-> sessionId,
          store |-> [touchSession(st, sessionId, st.clock) EXCEPT !.clock = @ + 1]]
    ELSE [threw |-> FALSE, lookup |-> FALSE, err |-> NoError, id |-> NewSessionId,
          store |-> createSession(st, userId)]

\* find({sessionId}): the messages of a session, in the order of insertion.
SessionMessages(st, sessionId) ==
    SelectSeq(st.messages, LAMBDA m : m.sessionId = sessionId)

\* The orders of the positions S of msgs that ascend by createdAt: any of
\* the positions with the least createdAt comes first.
RECURSIVE AscendingOrders(_, _)
AscendingOrders(msgs, S) ==
    IF S = {} THEN {<<>>}
    ELSE UNION {{<<i>> \o t : t \in AscendingOrders(msgs, S \ {i})} :
                  i \in {j \in S : \A k \in S :
                                     msgs[j].createdAt <= msgs[k].createdAt}}

\* .sort({createdAt: 1}): every order of msgs that ascends by createdAt; the
\* sort key says nothing about messages with equal createdAt.
SortedByCreatedAt(msgs) ==
    {[i \in 1..Len(msgs) |-> msgs[f[i]]] :
        f \in AscendingOrders(msgs, 1..Len(msgs))}

\* messages.map(m => ({role, content}))
AsChatMessages(msgs) ==
    [i \in 1..Len(msgs) |-> [role |-> msgs[i].role, content |-> msgs[i].content]]

\* getConversationHistory(sessionId, limit): find({sessionId})
\* .sort({createdAt: 1}).limit(limit), as {role, content}: the results the
\* query may give.
getConversationHistory(st, sessionId, limit) ==
    {AsChatMessages(SubSeq(sorted, 1, IF Len(sorted) < limit THEN Len(sorted)
                                      ELSE limit)) :
        sorted \in SortedByCreatedAt(SessionMessages(st, sessionId))}

\* Time that passes before a call reads the clock, in milliseconds.
Elapsed == {0, 1}
Advance(st, ms) == [st EXCEPT !.clock = @ + ms]

\* Faulty variant: the message is put before the ones the store holds.
saveMessagePrepend(st, sessionId, role, content) ==
    [st EXCEPT !.messages = <<[sessionId |-> sessionId, role |-> role,
                               content |-> content, createdAt |-> st.clock]>> \o @]
\* Faulty variant: an upsert keyed by session, role and createdAt, so a
\* message written in the same millisecond replaces the earlier one.
saveMessageUpsert(st, sessionId, role, content) ==
    [st EXCEPT !.messages =
        Append(SelectSeq(@, LAMBDA m : ~(/\ m.sessionId = sessionId
                                        /\ m.role = role
                                        /\ m.createdAt = st.clock)),
               [sessionId |-> sessionId, role |-> role,
                content |-> content, createdAt |-> st.clock])]
\* saveMessage(sessionId, role, content): one insert, createdAt the time
\* the server reads.
saveMessage(st, sessionId, role, content) ==
    [st EXCEPT !.messages = Append(@, [sessionId |-> sessionId, role |-> role,
                                       content |-> content, createdAt |-> st.clock])]

\* ------------------------------------------------------------- requests

\* What authentication finds: no Bearer header ("missing"); a key whose
\* lookup answers with its user ("ok") or with nothing ("invalid"); a key,
\* valid or unknown, whose lookup throws an error with text lookupMsg.
Credentials ==
    {[auth |-> "missing", key |-> "none", lookupMsg |-> {}],
     [auth |-> "ok", key |-> "valid", lookupMsg |-> {}],
     [auth |-> "invalid", key |-> "unknown", lookupMsg |-> {}]}
    \cup {[auth |-> "error", key |-> k, lookupMsg |-> m] :
             k \in {"valid", "unknown"}, m \in StoreTexts}
Sizes == {0, 1000, MaxBytes, MaxBytes + 1}
Mimes == {"audio/webm", "video/mp4"}

Requests ==
    {[auth |-> c.auth, key |-> c.key, lookupMsg |-> c.lookupMsg,
      hasAudio |-> FALSE, size |-> 0, mime |-> "none", sessionId |-> sid] :
        c \in Credentials, sid \in SessionIds}
    \cup
    {[auth |-> c.auth, key |-> c.key, lookupMsg |-> c.lookupMsg,
      hasAudio |-> TRUE, size |-> z, mime |-> m, sessionId |-> sid] :
        c \in Credentials, z \in Sizes, m \in Mimes, sid \in SessionIds}

UploadPath == "upload"

\* --------------------------------------------------------- orchestration

\* Faulty variant: the user message is saved as soon as it is transcribed.
NextAfterEagerSave(step) ==
    CASE step = "validate" -> "session"
      [] step = "session" -> "prepare"
      [] step = "prepare" -> "stt"
      [] step = "stt" -> "save_user"
      [] step = "save_user" -> "history"
      [] step = "history" -> "llm"
      [] step = "llm" -> "tts"
      [] step = "tts" -> "save_assistant"
      [] step = "save_assistant" -> "finish"
\* Faulty variant: the history is loaded before the audio is transcribed.
NextAfterHistoryFirst(step) ==
    CASE step = "validate" -> "session"
      [] step = "session" -> "prepare"
      [] step = "prepare" -> "history"
      [] step = "history" -> "stt"
      [] step = "stt" -> "llm"
      [] step = "llm" -> "tts"
      [] step = "tts" -> "save_user"
      [] step = "save_user" -> "save_assistant"
      [] step = "save_assistant" -> "finish"
\* Order of the steps of one turn, as the statements of
\* handleVoiceConversation (v1) and handleConversation (v2) follow each other.
NextAfter(step) ==
    CASE step = "validate" -> "session"
      [] step = "session" -> "prepare"
      [] step = "prepare" -> "stt"
      [] step = "stt" -> "history"
      [] step = "history" -> "llm"
      [] step = "llm" -> "tts"
      [] step = "tts" -> "save_user"
      [] step = "save_user" -> "save_assistant"
      [] step = "save_assistant" -> "finish"

RetrySteps == {"stt", "llm", "tts"}

\* Control moves to step `next`; a provider step starts its
\* retryWithBackoff(..., 2).
Goto(next) ==
    /\ pc' = next
    /\ rw' = IF next \in RetrySteps THEN RetryInit(PipelineRetries) ELSE RetryIdle

\* v1 POST, catch block: cleanupFile(preparedPath), cleanupFile(audioFilePath)
\* when it is another path, then handleApiError.
CleanupCatchV1(files, audioFilePath, preparedPath) ==
    LET a == IF preparedPath # "none" THEN cleanupFile(files, preparedPath)
             ELSE files
    IN IF audioFilePath # "none" /\ audioFilePath # preparedPath
       THEN cleanupFile(a, audioFilePath) ELSE a

\* v1 POST, success: cleanupFile(preparedPath), cleanupFile(audioFilePath)
\* when it is another path.
CleanupSuccessV1(files, audioFilePath, preparedPath) ==
    LET a == cleanupFile(files, preparedPath)
    IN IF preparedPath # audioFilePath THEN cleanupFile(a, audioFilePath) ELSE a

\* The handler ends with response r, the files on disk being `files`.
Deliver(r, step, files, l) ==
    /\ resp' = r
    /\ fs' = files
    /\ loc' = [l EXCEPT !.failedAt = step]
    /\ pc' = "done"

\* Faulty variant: after the catch block has answered, the handler goes on
\* to persist the turn.
ThrowAndPersist(e, step, files, l) ==
    /\ resp' = IF ver = "v1" THEN handleApiError(e) ELSE V2CatchResponse(e)
    /\ fs' = cleanupFile(files, UploadPath)
    /\ loc' = [l EXCEPT !.failedAt = step]
    /\ pc' = "save_user"
\* An error thrown at `step` reaches the handler's catch block.
\* v1: cleanup, handleApiError. v2: the catch's response, then
\* finally { unlink(tmpPath) }.
Throw(e, step, files, l) ==
    IF ver = "v1"
    THEN Deliver(handleApiError(e), step,
                 CleanupCatchV1(files, l.audioFilePath, l.preparedPath), l)
    ELSE Deliver(V2CatchResponse(e), step, cleanupFile(files, UploadPath), l)

\* v2: `return NextResponse.json(400 ...)` inside the try block, then
\* finally { unlink(tmpPath) }.
ReturnV2(r, step, files, l) == Deliver(r, step, cleanupFile(files, UploadPath), l)

ValidationError == Response(400, "VALIDATION_ERROR")

\* v2 isConnectionError: the error's text names a connection failure.
isConnectionError(msg) == msg \cap {"connection", "ECONNREFUSED"} # {}

\* Faulty variant: an unknown key is let through.
authenticateOpen(v, r) ==
    IF r.auth = "missing" THEN Response(401, "UNAUTHORIZED")
    ELSE IF r.auth = "error"
    THEN IF v = "v1" THEN Response(500, "AUTHENTICATION_ERROR")
         ELSE IF isConnectionError(r.lookupMsg)
         THEN Response(503, "SERVICE_UNAVAILABLE")
         ELSE WithErrorMessage(Response(500, "INTERNAL_SERVER_ERROR"))
    ELSE NoResponse
\* v1 authenticate / v2 withAuth before the handler: the response that ends
\* the request, or NoResponse when the handler is to run.  No Bearer header
\* is a 401; a lookup that throws is a 500 in v1 and a 503 or 500 in v2; a
\* lookup that finds no user is a 401.
authenticate(v, r) ==
    IF r.auth = "missing" THEN Response(401, "UNAUTHORIZED")
    ELSE IF r.auth = "error"
    THEN IF v = "v1" THEN Response(500, "AUTHENTICATION_ERROR")
         ELSE IF isConnectionError(r.lookupMsg)
         THEN Response(503, "SERVICE_UNAVAILABLE")
         ELSE WithErrorMessage(Response(500, "INTERNAL_SERVER_ERROR"))
    ELSE IF r.auth = "invalid" THEN Response(401, "INVALID_API_KEY")
    ELSE NoResponse

Init ==
    /\ ver \in Versions
    /\ pc = "idle"
    /\ rw = RetryIdle
    /\ req = NoRequest
    /\ loc = NoLocals
    /\ fs = {}
    /\ store = InitialStore
    /\ prov = NoCalls
    /\ resp = NoResponse
    /\ script = <<>>
    /\ conc = <<>>

\* v1 POST up to writeFile: authenticate, the audio field, the media type,
\* the size, then the upload is written to disk.
ReceiveV1 ==
    /\ ver = "v1"
    /\ pc = "idle"
    /\ \E r \in Requests :
        /\ req' = r
        /\ IF authenticate(ver, r) # NoResponse
           THEN Deliver(authenticate(ver, r), "auth", fs, loc)
           ELSE IF ~r.hasAudio THEN Deliver(ValidationError, "gate", fs, loc)
           ELSE IF r.mime \notin ALLOWED_TYPES
           THEN Deliver(ValidationError, "gate", fs, loc)
           ELSE IF r.size > MaxBytes THEN Deliver(ValidationError, "gate", fs, loc)
           ELSE /\ fs' = fs \cup {UploadPath}
                /\ loc' = [loc EXCEPT !.audioFilePath = UploadPath]
                /\ pc' = "validate"
                /\ resp' = resp
    /\ UNCHANGED <<ver, rw, store, prov, script, conc>>

\* v2 withAuth, then handleConversation up to writeFile: the audio field
\* must be there and non-empty, then the upload is written to disk.
ReceiveV2 ==
    /\ ver = "v2"
    /\ pc = "idle"
    /\ \E r \in Requests :
        /\ req' = r
        /\ IF authenticate(ver, r) # NoResponse
           THEN Deliver(authenticate(ver, r), "auth", fs, loc)
           ELSE IF ~r.hasAudio \/ r.size = 0
           THEN Deliver(ValidationError, "gate", fs, loc)
           ELSE /\ fs' = fs \cup {UploadPath}
                /\ loc' = [loc EXCEPT !.audioFilePath = UploadPath]
                /\ pc' = "validate"
                /\ resp' = resp
    /\ UNCHANGED <<ver, rw, store, prov, script, conc>>

\* v1: validateAudio(audioFilePath); an invalid file is answered 400 from
\* inside the try block.
ValidateV1 ==
    /\ ver = "v1"
    /\ pc = "validate"
    /\ \E probe \in ProbeOutcomes :
        IF validateAudioV1(loc.audioFilePath \in fs, req.size, probe)
        THEN /\ Goto(NextAfter("validate"))
             /\ loc' = [loc EXCEPT !.probe = probe.kind]
             /\ UNCHANGED <<fs, resp>>
        ELSE /\ Deliver(ValidationError, "validate", fs,
                        [loc EXCEPT !.probe = probe.kind])
             /\ rw' = rw
    /\ UNCHANGED <<ver, req, store, prov, script, conc>>

\* v2: validateAudio(tmpPath); an invalid file is unlinked and answered 400.
ValidateV2 ==
    /\ ver = "v2"
    /\ pc = "validate"
    /\ \E probe \in ProbeOutcomes :
        IF validateAudioV2(loc.audioFilePath \in fs, req.size, probe)
        THEN /\ Goto(NextAfter("validate"))
             /\ loc' = [loc EXCEPT !.probe = probe.kind]
             /\ UNCHANGED <<fs, resp>>
        ELSE /\ ReturnV2(ValidationError, "validate",
                         cleanupFile(fs, loc.audioFilePath),
                         [loc EXCEPT !.probe = probe.kind])
             /\ rw' = rw
    /\ UNCHANGED <<ver, req, store, prov, script, conc>>

\* getOrCreateSession(user.id, sessionId), in both handlers.  The validation
\* result is not read after the validity test, so loc.probe is dropped here.
ResolveSession ==
    /\ pc = "session"
    /\ \E db \in DbOutcomes :
        LET r == getOrCreateSession(ver, store, Caller, req.sessionId, db) IN
        IF r.threw
        THEN /\ Throw(r.err, IF r.lookup THEN "session_lookup" ELSE "session",
                      fs, [loc EXCEPT !.probe = "none"])
             /\ UNCHANGED <<rw, store>>
        ELSE /\ store' = r.store
             /\ loc' = [loc EXCEPT !.activeSessionId = r.id,
                                   !.probe = "none"]
             /\ Goto(NextAfter("session"))
             /\ UNCHANGED <<fs, resp>>
    /\ UNCHANGED <<ver, req, prov, script, conc>>

\* v1: preparedPath = await prepareAudioForWhisper(audioFilePath).
PrepareV1 ==
    /\ ver = "v1"
    /\ pc = "prepare"
    /\ \E ffmpeg \in FfmpegOutcomes :
        LET r == prepareAudioForWhisperV1(loc.audioFilePath, fs, ffmpeg) IN
        /\ fs' = r.files
        /\ loc' = [loc EXCEPT !.preparedPath = r.path]
    /\ Goto(NextAfter("prepare"))
    /\ UNCHANGED <<ver, req, store, prov, resp, script, conc>>

\* v2: prepareAudioForWhisper(tmpPath) in its own try; when it throws,
\* tmpPath is unlinked and the request is answered 400.
PrepareV2 ==
    /\ ver = "v2"
    /\ pc = "prepare"
    /\ \E ffmpeg \in FfmpegOutcomes :
        LET r == prepareAudioForWhisperV2(loc.audioFilePath, fs, ffmpeg) IN
        IF r.threw
        THEN /\ ReturnV2(ValidationError, "prepare",
                         cleanupFile(r.files, loc.audioFilePath), loc)
             /\ rw' = rw
        ELSE /\ fs' = r.files
             /\ loc' = [loc EXCEPT !.preparedPath = r.path]
             /\ Goto(NextAfter("prepare"))
             /\ resp' = resp
    /\ UNCHANGED <<ver, req, store, prov, script, conc>>

\* The record of the providers whose first call of this request was
\* rejected with a 4xx status.
First4xx(set, provider, count, po) ==
    IF count = 0 /\ po.kind = "reject" /\ po.code >= 400 /\ po.code <= 499
    THEN set \cup {provider} ELSE set

\* 1 when the provider answered successfully with an empty or
\* whitespace-only text (transcription), else 0.
EmptyAnswer(po) == IF po.kind = "ok" /\ TrimEmpty(po.text) THEN 1 ELSE 0
\* 1 when the provider answered successfully with null or empty content
\* (generation), else 0.
NoTextAnswer(po) == IF po.kind = "ok" /\ Falsy(po.text) THEN 1 ELSE 0

\* What the latest provider call did: answered, rejected with a status,
\* or the connection failed.
LastOutcome(po) == [kind |-> po.kind, code |-> po.code]

\* The provider answered with the server-class status 503.
Is503(po) == po.kind = "reject" /\ po.code = 503

\* One attempt of retryWithBackoff(() => transcribeAudio(preparedPath), 2),
\* and what follows once the wrapper returns or throws: v2 unlinks
\* preparedPath in a finally; an empty transcript ends the turn.
Transcribe ==
    /\ pc = "stt"
    /\ rw.state = "running"
    /\ \E po \in SttOutcomes :
        LET r2 == RetryStep(ver, rw, transcribeAudio(ver, po, rw.calls + 1))
            files == IF ver = "v2" /\ r2.state # "running"
                     THEN cleanupFile(fs, loc.preparedPath) ELSE fs
            l2 == [loc EXCEPT !.transcript = r2.value]
        IN
        /\ prov' = [prov EXCEPT !.stt = @ + 1, !.transcribeAudio = @ + 1,
                                !.first4xx = First4xx(@, "stt", prov.stt, po),
                                !.sttEmpty = @ + EmptyAnswer(po),
                                !.last = LastOutcome(po)]
        /\ CASE r2.state = "running" ->
                  /\ rw' = r2
                  /\ UNCHANGED <<pc, fs, loc, resp>>
             [] r2.state = "thrown" ->
                  /\ Throw(r2.raised, "stt", files, loc)
                  /\ rw' = r2
             [] r2.state = "returned" /\ ver = "v1"
                  /\ (Falsy(r2.value) \/ TrimEmpty(r2.value)) ->
                  /\ Throw(LocalError(0, {}), "empty_transcript", files, l2)
                  /\ rw' = r2
             [] r2.state = "returned" /\ ver = "v2" /\ TrimEmpty(r2.value) ->
                  /\ ReturnV2(ValidationError, "empty_transcript", files, l2)
                  /\ rw' = r2
             [] OTHER ->
                  /\ fs' = files
                  /\ loc' = l2
                  /\ Goto(NextAfter("stt"))
                  /\ resp' = resp
    /\ UNCHANGED <<ver, req, store, script, conc>>

\* getConversationHistory(sessionId, 20)
LoadHistory ==
    /\ pc = "history"
    /\ \E db \in DbOutcomes :
        IF db.ok
        THEN /\ \E h \in getConversationHistory(store, loc.activeSessionId,
                                                 HistoryLimit) :
                    loc' = [loc EXCEPT !.history = h]
             /\ Goto(NextAfter("history"))
             /\ UNCHANGED <<fs, resp>>
        ELSE /\ Throw(StoreError(db.msg), "history", fs, loc)
             /\ rw' = rw
    /\ UNCHANGED <<ver, req, store, prov, script, conc>>

\* One attempt of retryWithBackoff(() => generateResponse(transcript, history), 2).
Generate ==
    /\ pc = "llm"
    /\ rw.state = "running"
    /\ \E po \in LlmOutcomes :
        LET r2 == RetryStep(ver, rw, generateResponse(ver, po, rw.calls + 1)) IN
        /\ prov' = [prov EXCEPT !.llm = @ + 1, !.generateResponse = @ + 1,
                                !.first4xx = First4xx(@, "llm", prov.llm, po),
                                !.llmEmpty = @ + NoTextAnswer(po),
                                !.llmNot503 = @ \/ ~Is503(po),
                                !.last = LastOutcome(po)]
        /\ CASE r2.state = "running" ->
                  /\ rw' = r2
                  /\ UNCHANGED <<pc, fs, loc, resp>>
             [] r2.state = "thrown" ->
                  /\ Throw(r2.raised, "llm", fs, loc)
                  /\ rw' = r2
             [] OTHER ->
                  /\ loc' = [loc EXCEPT !.responseText = r2.value]
                  /\ Goto(NextAfter("llm"))
                  /\ UNCHANGED <<fs, resp>>
    /\ UNCHANGED <<ver, req, store, script, conc>>

\* One attempt of retryWithBackoff(() => synthesizeSpeech(responseText), 2);
\* the provider is called only when synthesizeSpeech accepts the text.
Synthesize ==
    /\ pc = "tts"
    /\ rw.state = "running"
    /\ \E po \in IF synthesizeCallsProvider(ver, loc.responseText)
                 THEN TtsOutcomes ELSE {Answer(AudioBuffer)} :
        LET called == synthesizeCallsProvider(ver, loc.responseText)
            r2 == RetryStep(ver, rw,
                            synthesizeSpeech(ver, loc.responseText, po, rw.calls + 1))
        IN
        /\ prov' = [prov EXCEPT !.synthesizeSpeech = @ + 1,
                                !.tts = IF called THEN @ + 1 ELSE @,
                                !.first4xx = IF called
                                             THEN First4xx(@, "tts", prov.tts, po)
                                             ELSE @,
                                !.last = IF called THEN LastOutcome(po) ELSE @]
        /\ CASE r2.state = "running" ->
                  /\ rw' = r2
                  /\ UNCHANGED <<pc, fs, loc, resp>>
             [] r2.state = "thrown" ->
                  /\ Throw(r2.raised, "tts", fs, loc)
                  /\ rw' = r2
             [] OTHER ->
                  /\ Goto(NextAfter("tts"))
                  /\ UNCHANGED <<fs, loc, resp>>
    /\ UNCHANGED <<ver, req, store, script, conc>>

\* await saveMessage(sessionId, "user", transcript)
SaveUser ==
    /\ pc = "save_user"
    /\ prov' = [prov EXCEPT !.saveMessage = @ + 1]
    /\ \E db \in DbOutcomes, ms \in Elapsed :
        IF db.ok
        THEN /\ store' = saveMessage(Advance(store, ms), loc.activeSessionId,
                                     "user", loc.transcript)
             /\ Goto(NextAfter("save_user"))
             /\ UNCHANGED <<fs, loc, resp>>
        ELSE /\ Throw(StoreError(db.msg), "save_user", fs, loc)
             /\ UNCHANGED <<rw, store>>
    /\ UNCHANGED <<ver, req, script, conc>>

\* await saveMessage(sessionId, "assistant", responseText)
SaveAssistant ==
    /\ pc = "save_assistant"
    /\ prov' = [prov EXCEPT !.saveMessage = @ + 1]
    /\ \E db \in DbOutcomes, ms \in Elapsed :
        IF db.ok
        THEN /\ store' = saveMessage(Advance(store, ms), loc.activeSessionId,
                                     "assistant", loc.responseText)
             /\ Goto(NextAfter("save_assistant"))
             /\ UNCHANGED <<fs, loc, resp>>
        ELSE /\ Throw(StoreError(db.msg), "save_assistant", fs, loc)
             /\ UNCHANGED <<rw, store>>
    /\ UNCHANGED <<ver, req, script, conc>>

\* The turn succeeded: v1 cleans up both paths and returns the audio; v2
\* returns the audio and its finally unlinks tmpPath.
Finish ==
    /\ pc = "finish"
    /\ resp' = [sent |-> TRUE, status |-> 200, error |-> "none", audio |-> TRUE,
                sessionId |-> loc.activeSessionId, message |-> "none"]
    /\ fs' = IF ver = "v1"
             THEN CleanupSuccessV1(fs, loc.audioFilePath, loc.preparedPath)
             ELSE cleanupFile(fs, UploadPath)
    /\ pc' = "done"
    /\ UNCHANGED <<ver, rw, req, loc, store, prov, script, conc>>

Next ==
    \/ ReceiveV1
    \/ ReceiveV2
    \/ ValidateV1
    \/ ValidateV2
    \/ ResolveSession
    \/ PrepareV1
    \/ PrepareV2
    \/ Transcribe
    \/ LoadHistory
    \/ Generate
    \/ Synthesize
    \/ SaveUser
    \/ SaveAssistant
    \/ Finish

Spec == Init /\ [][Next]_vars

\* Every external call (media probe, transcoder, store operation, provider
\* call) returns or throws, so the handler's next step is eventually taken.
SpecFair == Spec /\ WF_vars(Next)

\* ------------------------------------------- SpecRetry: the wrapper alone

\* What a scripted operation may do on its call number id.
ScriptOutcomes(id) ==
    {Ok(Text("value", 5, FALSE))} \cup
    {Fail(MkError(sh, c, ie, id, {})) :
        sh \in Shapes, c \in StatusCodes, ie \in BOOLEAN}

InitRetry ==
    /\ ver \in Versions
    /\ pc = "retry"
    /\ rw = RetryIdle
    /\ req = NoRequest
    /\ loc = NoLocals
    /\ fs = {}
    /\ store = EmptyStore
    /\ prov = NoCalls
    /\ resp = NoResponse
    /\ script = <<>>
    /\ conc = <<>>

\* retryWithBackoff(operation, maxRetries) is entered.
RetryStart ==
    /\ pc = "retry"
    /\ rw.state = "idle"
    /\ \E m \in 0..MaxRetriesBound : rw' = RetryInit(m)
    /\ UNCHANGED <<ver, pc, req, loc, fs, store, prov, resp, script, conc>>

\* One pass of the loop: await operation(), then the catch block.
RetryOpCall ==
    /\ pc = "retry"
    /\ rw.state = "running"
    /\ \E out \in ScriptOutcomes(rw.calls + 1) :
          /\ rw' = RetryStep(ver, rw, out)
          /\ script' = Append(script, out)
    /\ UNCHANGED <<ver, pc, req, loc, fs, store, prov, resp, conc>>

NextRetry == RetryStart \/ RetryOpCall

SpecRetry == InitRetry /\ [][NextRetry]_vars

\* ------------------------- SpecSessions: concurrent getOrCreateSession calls

\* Requests of one user running at the same time.
Procs == {"p1", "p2"}
\* getOrCreateSession calls each of them makes.
MaxSessionCalls == 2
\* Milliseconds the clock advances during the run.
MaxClock == 2

\* Id the store gives a session inserted into st.
FreshSessionId(st) == "s" \o ToString(Cardinality(DOMAIN st.sessions) + 1)

NoSessionCall == [at |-> "idle", userId |-> "none", sessionId |-> "none",
                  stamp |-> 0, calls |-> 0]

InitSessions ==
    /\ ver \in Versions
    /\ pc = "sessions"
    /\ rw = RetryIdle
    /\ req = NoRequest
    /\ loc = NoLocals
    /\ fs = {}
    /\ store = InitialStore
    /\ prov = NoCalls
    /\ resp = NoResponse
    /\ script = <<>>
    /\ conc = [p \in Procs |-> NoSessionCall]

\* getOrCreateSession(userId, sessionId) is entered; without a sessionId it
\* goes straight to createSession.
SessionCall(p) ==
    /\ pc = "sessions"
    /\ conc[p].at = "idle"
    /\ conc[p].calls < MaxSessionCalls
    /\ \E sid \in {"none", "s1", "s2"} :
          conc' = [conc EXCEPT ![p] = [at |-> IF sid = "none" THEN "create"
                                             ELSE "lookup",
                                      userId |-> Caller, sessionId |-> sid,
                                      stamp |-> 0, calls |-> @.calls + 1]]
    /\ UNCHANGED <<ver, pc, rw, req, loc, fs, store, prov, resp, script>>

\* const session = await getSession(sessionId, userId)
SessionLookup(p) ==
    /\ pc = "sessions"
    /\ conc[p].at = "lookup"
    /\ conc' = [conc EXCEPT ![p].at =
                  IF getSession(ver, store, conc[p].sessionId, conc[p].userId).found
                  THEN "found" ELSE "create"]
    /\ UNCHANGED <<ver, pc, rw, req, loc, fs, store, prov, resp, script>>

\* The update is issued: `new Date()` is evaluated in the server process.
SessionStamp(p) ==
    /\ pc = "sessions"
    /\ conc[p].at = "found"
    /\ conc' = [conc EXCEPT ![p].at = "update", ![p].stamp = store.clock]
    /\ UNCHANGED <<ver, pc, rw, req, loc, fs, store, prov, resp, script>>

\* The update reaches the store; getOrCreateSession returns sessionId.
SessionUpdate(p) ==
    /\ pc = "sessions"
    /\ conc[p].at = "update"
    /\ store' = touchSession(store, conc[p].sessionId, conc[p].stamp)
    /\ conc' = [conc EXCEPT ![p].at = "idle"]
    /\ UNCHANGED <<ver, pc, rw, req, loc, fs, prov, resp, script>>

\* return createSession(userId)
SessionCreate(p) ==
    /\ pc = "sessions"
    /\ conc[p].at = "create"
    /\ store' = insertSession(store, FreshSessionId(store), conc[p].userId,
                              store.clock)
    /\ conc' = [conc EXCEPT ![p].at = "idle"]
    /\ UNCHANGED <<ver, pc, rw, req, loc, fs, prov, resp, script>>

\* A millisecond passes.
SessionTick ==
    /\ pc = "sessions"
    /\ store.clock < InitialStore.clock + MaxClock
    /\ store' = [store EXCEPT !.clock = @ + 1]
    /\ UNCHANGED <<ver, pc, rw, req, loc, fs, prov, resp, script, conc>>

NextSessions ==
    \/ \E p \in Procs : SessionCall(p)
    \/ \E p \in Procs : SessionLookup(p)
    \/ \E p \in Procs : SessionStamp(p)
    \/ \E p \in Procs : SessionUpdate(p)
    \/ \E p \in Procs : SessionCreate(p)
    \/ SessionTick

SpecSessions == InitSessions /\ [][NextSessions]_vars

\* ------------------- SpecHistory: saveMessage and getConversationHistory

\* Messages written during the run.
MaxMessages == 3
\* Largest limit handed to getConversationHistory.
MaxLimit == 2

NoHistoryCall == [loaded |-> FALSE, sessionId |-> "none", limit |-> 0,
                  seen |-> <<>>, result |-> <<>>]

InitHistory ==
    /\ ver \in Versions
    /\ pc = "history_calls"
    /\ rw = RetryIdle
    /\ req = NoRequest
    /\ loc = NoLocals
    /\ fs = {}
    /\ store = [InitialStore EXCEPT !.messages = <<>>]
    /\ prov = NoCalls
    /\ resp = NoResponse
    /\ script = <<>>
    /\ conc = NoHistoryCall

\* await saveMessage(sessionId, role, content): the k-th write carries the
\* content "m<k>".
HistorySave ==
    /\ pc = "history_calls"
    /\ Len(store.messages) < MaxMessages
    /\ \E sid \in {"s1", "s2"}, ms \in Elapsed :
          store' = saveMessage(Advance(store, ms), sid,
                               IF Len(store.messages) % 2 = 0 THEN "user"
                               ELSE "assistant",
                               Text("m" \o ToString(Len(store.messages) + 1),
                                    1, FALSE))
    /\ UNCHANGED <<ver, pc, rw, req, loc, fs, prov, resp, script, conc>>

\* await getConversationHistory(sessionId, limit); seen is what the session
\* held, in the order of insertion.
HistoryLoad ==
    /\ pc = "history_calls"
    /\ \E sid \in {"s1", "s2"}, limit \in 1..MaxLimit :
          \E h \in getConversationHistory(store, sid, limit) :
              conc' = [loaded |-> TRUE, sessionId |-> sid, limit |-> limit,
                       seen |-> SessionMessages(store, sid), result |-> h]
    /\ UNCHANGED <<ver, pc, rw, req, loc, fs, store, prov, resp, script>>

NextHistory == HistorySave \/ HistoryLoad

SpecHistory == InitHistory /\ [][NextHistory]_vars

\* --------------- SpecAccess: two users, the GET routes and voice turns

Users == {Caller, OtherUser}
\* Voice turns made during the run.
MaxAccessTurns == 1
\* The limit query parameter of the messages route.
AccessLimits == {1, HistoryLimit}

\* What user u says in a turn, and what they are answered.
Said(u) == Text(u, 1, FALSE)
Answered(u) == Text(u, 2, FALSE)

NoAccess ==
    [turn |-> [at |-> "idle", userId |-> "none", sessionId |-> "none"],
     turns |-> 0,
     last |-> [route |-> "none", userId |-> "none", sessionId |-> "none",
               status |-> 0, error |-> "none", session |-> <<>>,
               messages |-> <<>>]]

\* Both users own a session that holds messages.
InitAccess ==
    /\ ver \in Versions
    /\ pc = "access"
    /\ rw = RetryIdle
    /\ req = NoRequest
    /\ loc = NoLocals
    /\ fs = {}
    /\ store = saveMessage(InitialStore, "s2", "user", Said(OtherUser))
    /\ prov = NoCalls
    /\ resp = NoResponse
    /\ script = <<>>
    /\ conc = NoAccess

\* The answer of a GET route for the authenticated user u: 404 when
\* getSession finds nothing, v1's handleApiError when it throws, else 200
\* with the body.
AccessAnswer(route, u, sid, session, messages) ==
    LET g == getSession(ver, store, sid, u)
        r == IF g.threw THEN handleApiError(StoreError({}))
             ELSE IF ~g.found THEN Response(404, "SESSION_NOT_FOUND")
             ELSE [Response(200, "none") EXCEPT !.message = "none"]
    IN [route |-> route, userId |-> u, sessionId |-> sid,
        status |-> r.status, error |-> r.error,
        session |-> IF r.status = 200 THEN session ELSE <<>>,
        messages |-> IF r.status = 200 THEN messages ELSE <<>>]

\* GET /sessions/:sessionId
AccessGetSession ==
    /\ pc = "access"
    /\ \E u \in Users, sid \in SessionIds \ {"none"} :
          conc' = [conc EXCEPT !.last =
              AccessAnswer("session", u, sid,
                  IF sid \in DOMAIN store.sessions
                  THEN <<[id |-> sid, userId |-> store.sessions[sid].userId,
                          lastActivityAt |-> store.sessions[sid].lastActivityAt]>>
                  ELSE <<>>,
                  <<>>)]
    /\ UNCHANGED <<ver, pc, rw, req, loc, fs, store, prov, resp, script>>

\* GET /sessions/:sessionId/messages?limit=
AccessGetMessages ==
    /\ pc = "access"
    /\ \E u \in Users, sid \in SessionIds \ {"none"}, limit \in AccessLimits :
          \E h \in getConversationHistory(store, sid, limit) :
              conc' = [conc EXCEPT !.last =
                          AccessAnswer("messages", u, sid, <<>>, h)]
    /\ UNCHANGED <<ver, pc, rw, req, loc, fs, store, prov, resp, script>>

\* A voice turn of user u reaches getOrCreateSession(user.id, sessionId);
\* the store hands out one new id during the run.
AccessTurnResolve ==
    /\ pc = "access"
    /\ conc.turn.at = "idle"
    /\ conc.turns < MaxAccessTurns
    /\ \E u \in Users, sid \in SessionIds :
          LET r == getOrCreateSession(ver, store, u, sid, [ok |-> TRUE, msg |-> {}])
          IN /\ ~r.threw
             /\ r.id = NewSessionId => NewSessionId \notin DOMAIN store.sessions
             /\ store' = r.store
             /\ conc' = [conc EXCEPT
                   !.turn = [at |-> "save_user", userId |-> u, sessionId |-> r.id],
                   !.turns = @ + 1,
                   !.last = [NoAccess.last EXCEPT !.route = "turn",
                                !.userId = u, !.sessionId = sid]]
    /\ UNCHANGED <<ver, pc, rw, req, loc, fs, prov, resp, script>>

\* The turn's saveMessage(sessionId, "user", transcript).
AccessTurnSaveUser ==
    /\ pc = "access"
    /\ conc.turn.at = "save_user"
    /\ \E ms \in Elapsed :
          store' = saveMessage(Advance(store, ms), conc.turn.sessionId, "user",
                               Said(conc.turn.userId))
    /\ conc' = [conc EXCEPT !.turn.at = "save_assistant",
                   !.last = [NoAccess.last EXCEPT !.route = "turn",
                                !.userId = conc.turn.userId,
                                !.sessionId = conc.last.sessionId]]
    /\ UNCHANGED <<ver, pc, rw, req, loc, fs, prov, resp, script>>

\* The turn's saveMessage(sessionId, "assistant", responseText).
AccessTurnSaveAssistant ==
    /\ pc = "access"
    /\ conc.turn.at = "save_assistant"
    /\ \E ms \in Elapsed :
          store' = saveMessage(Advance(store, ms), conc.turn.sessionId,
                               "assistant", Answered(conc.turn.userId))
    /\ conc' = [conc EXCEPT !.turn = NoAccess.turn,
                   !.last = [NoAccess.last EXCEPT !.route = "turn",
                                !.userId = conc.turn.userId,
                                !.sessionId = conc.turn.sessionId]]
    /\ UNCHANGED <<ver, pc, rw, req, loc, fs, prov, resp, script>>

NextAccess ==
    \/ AccessGetSession
    \/ AccessGetMessages
    \/ AccessTurnResolve
    \/ AccessTurnSaveUser
    \/ AccessTurnSaveAssistant

SpecAccess == InitAccess /\ [][NextAccess]_vars

\* ----------- SpecTurns: two voice turns of one user on the same session

\* Milliseconds the clock advances during the run.
MaxTurnTicks == 1
\* The session both turns name.
SharedSession == "s1"
\* File names the uploads carry.
UploadNames == {"my memo.webm", "my_memo.webm"}

\* v2: (audioFile.name ?? 'audio').replace(/[^\w.-]/g, '_').slice(0, 50)
SafeName(name) == IF name = "my memo.webm" THEN "my_memo.webm" ELSE name

\* The randomUUID() of request p: no two requests draw the same one.
RandomUUID(p) == "uuid-" \o p

\* v1: uploads/${randomUUID()}-${audioFile.name}
\* v2: tmpdir/voice-${Date.now()}-${safeName}
TempPath(v, p, now, name) ==
    IF v = "v1" THEN "uploads/" \o RandomUUID(p) \o "-" \o name
    ELSE "tmp/voice-" \o ToString(now) \o "-" \o SafeName(name)

NoTurn == [at |-> "idle", path |-> "none", history |-> <<>>]

InitTurns ==
    /\ ver \in Versions
    /\ pc = "turns"
    /\ rw = RetryIdle
    /\ req = NoRequest
    /\ loc = NoLocals
    /\ fs = {}
    /\ store = InitialStore
    /\ prov = NoCalls
    /\ resp = NoResponse
    /\ script = <<>>
    /\ conc = [turn |-> [p \in Procs |-> NoTurn], files |-> <<>>]

\* await writeFile(path, bytes): the file at path now holds p's upload.
TurnUpload(p) ==
    /\ pc = "turns"
    /\ conc.turn[p].at = "idle"
    /\ \E name \in UploadNames :
          LET path == TempPath(ver, p, store.clock, name) IN
          conc' = [conc EXCEPT
                     !.turn[p] = [@ EXCEPT !.at = "session", !.path = path],
                     !.files = (path :> p) @@ @]
    /\ UNCHANGED <<ver, pc, rw, req, loc, fs, store, prov, resp, script>>

\* getOrCreateSession(user.id, sessionId) with the caller's own session.
TurnResolve(p) ==
    /\ pc = "turns"
    /\ conc.turn[p].at = "session"
    /\ store' = touchSession(store, SharedSession, store.clock)
    /\ conc' = [conc EXCEPT !.turn[p].at = "history"]
    /\ UNCHANGED <<ver, pc, rw, req, loc, fs, prov, resp, script>>

\* getConversationHistory(sessionId, 20)
TurnLoad(p) ==
    /\ pc = "turns"
    /\ conc.turn[p].at = "history"
    /\ \E h \in getConversationHistory(store, SharedSession, HistoryLimit) :
          conc' = [conc EXCEPT !.turn[p] =
                      [@ EXCEPT !.at = "save_user", !.history = h]]
    /\ UNCHANGED <<ver, pc, rw, req, loc, fs, store, prov, resp, script>>

\* saveMessage(sessionId, "user", transcript)
TurnSaveUser(p) ==
    /\ pc = "turns"
    /\ conc.turn[p].at = "save_user"
    /\ store' = saveMessage(store, SharedSession, "user", Said(p))
    /\ conc' = [conc EXCEPT !.turn[p].at = "save_assistant"]
    /\ UNCHANGED <<ver, pc, rw, req, loc, fs, prov, resp, script>>

\* saveMessage(sessionId, "assistant", responseText)
TurnSaveAssistant(p) ==
    /\ pc = "turns"
    /\ conc.turn[p].at = "save_assistant"
    /\ store' = saveMessage(store, SharedSession, "assistant", Answered(p))
    /\ conc' = [conc EXCEPT !.turn[p].at = "cleanup"]
    /\ UNCHANGED <<ver, pc, rw, req, loc, fs, prov, resp, script>>

\* cleanupFile / unlink of the turn's own path, then the response.
TurnCleanup(p) ==
    /\ pc = "turns"
    /\ conc.turn[p].at = "cleanup"
    /\ conc' = [conc EXCEPT
                   !.turn[p].at = "done",
                   !.files = [q \in DOMAIN @ \ {conc.turn[p].path} |-> @[q]]]
    /\ UNCHANGED <<ver, pc, rw, req, loc, fs, store, prov, resp, script>>

\* A millisecond passes.
TurnTick ==
    /\ pc = "turns"
    /\ store.clock < InitialStore.clock + MaxTurnTicks
    /\ store' = Advance(store, 1)
    /\ UNCHANGED <<ver, pc, rw, req, loc, fs, prov, resp, script, conc>>

NextTurns ==
    \/ \E p \in Procs :
          \/ TurnUpload(p)
          \/ TurnResolve(p)
          \/ TurnLoad(p)
          \/ TurnSaveUser(p)
          \/ TurnSaveAssistant(p)
          \/ TurnCleanup(p)
    \/ TurnTick

SpecTurns == InitTurns /\ [][NextTurns]_vars

\* ------------- SpecPrompt: the history load and the generation prompt

\* Messages the session holds before the turn.
MaxStored == 22

\* The session's n earlier messages, one a millisecond, user and assistant
\* in turn.
StoredTurns(n) ==
    [sessions |-> InitialStore.sessions,
     messages |-> [i \in 1..n |->
                     [sessionId |-> "s1",
                      role |-> IF i % 2 = 1 THEN "user" ELSE "assistant",
                      content |-> Text("m" \o ToString(i), 1, FALSE),
                      createdAt |-> i]],
     clock |-> n + 1]

SystemInstruction ==
    [role |-> "system", content |-> Text("You are a helpful voice assistant", 33, FALSE)]

\* history.slice(-n): the last n entries, all of them when there are fewer.
slice(history, n) ==
    IF Len(history) <= n THEN history
    ELSE SubSeq(history, Len(history) - n + 1, Len(history))

\* generateResponse: the messages handed to chat.completions.create.
PromptMessages(userText, conversationHistory) ==
    <<SystemInstruction>> \o slice(conversationHistory, PromptHistory)
        \o <<[role |-> "user", content |-> userText]>>

InitPrompt ==
    /\ ver \in Versions
    /\ pc = "prompt_history"
    /\ rw = RetryIdle
    /\ req = NoRequest
    /\ loc = NoLocals
    /\ fs = {}
    /\ \E n \in 0..MaxStored : store = StoredTurns(n)
    /\ prov = NoCalls
    /\ resp = NoResponse
    /\ script = <<>>
    /\ conc = <<>>

\* const history = await getConversationHistory(sessionId, 20)
PromptLoad ==
    /\ pc = "prompt_history"
    /\ \E h \in getConversationHistory(store, "s1", HistoryLimit),
          t \in {Text("hello", 5, FALSE), Text("a longer question", 17, FALSE)} :
          loc' = [loc EXCEPT !.history = h, !.transcript = t]
    /\ pc' = "prompt_llm"
    /\ UNCHANGED <<ver, rw, req, fs, store, prov, resp, script, conc>>

\* generateResponse(transcript, history) builds its messages and calls the
\* provider with them.
PromptGenerate ==
    /\ pc = "prompt_llm"
    /\ conc' = PromptMessages(loc.transcript, loc.history)
    /\ prov' = [prov EXCEPT !.llm = @ + 1, !.generateResponse = @ + 1]
    /\ pc' = "prompt_sent"
    /\ UNCHANGED <<ver, rw, req, loc, fs, store, resp, script>>

NextPrompt == PromptLoad \/ PromptGenerate

SpecPrompt == InitPrompt /\ [][NextPrompt]_vars

\* ------------------- SpecLimit: the limit of the messages endpoint

\* Cap of the v2 route: Math.min(..., 100)
LimitCap == 100
\* Messages the session may hold.
StoredCounts == {0, 1, HistoryLimit, HistoryLimit + 1, LimitCap, LimitCap + 1}

\* The limit query parameter: absent, the empty string, a string parseInt
\* reads as the integer n ("7", "-5", "12abc"), or a string it cannot read.
LimitParams ==
    {[kind |-> "absent", n |-> 0], [kind |-> "empty", n |-> 0],
     [kind |-> "text", n |-> 0]}
    \cup {[kind |-> "int", n |-> n] :
             n \in {-5, 0, 1, HistoryLimit, LimitCap, LimitCap + 1, LimitCap + 50}}

NaN == [nan |-> TRUE, n |-> 0]
Num(n) == [nan |-> FALSE, n |-> n]
DefaultLimit == [kind |-> "int", n |-> HistoryLimit]

\* parseInt(string, 10)
parseInt(param) == IF param.kind = "int" THEN Num(param.n) ELSE NaN

\* v1: parseInt(searchParams.get("limit") || "20")
\* v2: Math.min(parseInt(limitParam ?? '20', 10) || 20, 100)
RouteLimit(v, param) ==
    IF v = "v1"
    THEN parseInt(IF param.kind \in {"absent", "empty"} THEN DefaultLimit
                  ELSE param)
    ELSE LET parsed == parseInt(IF param.kind = "absent" THEN DefaultLimit
                                ELSE param)
             value == IF parsed.nan \/ parsed.n = 0 THEN HistoryLimit
                      ELSE parsed.n
         IN Num(IF value < LimitCap THEN value ELSE LimitCap)

\* find(...).limit(n): how many of the total matching documents come
\* back; 0 sets no limit, a negative n stands for its absolute value.
CursorLimit(n, total) ==
    LET most == IF n = 0 THEN total ELSE IF n < 0 THEN 0 - n ELSE n
    IN IF total < most THEN total ELSE most

NoLimitCall == [asked |-> FALSE, param |-> DefaultLimit, limit |-> Num(0),
                threw |-> FALSE, returned |-> 0]

InitLimit ==
    /\ ver \in Versions
    /\ pc = "limit"
    /\ rw = RetryIdle
    /\ req = NoRequest
    /\ loc = NoLocals
    /\ fs = {}
    /\ \E n \in StoredCounts : store = StoredTurns(n)
    /\ prov = NoCalls
    /\ resp = NoResponse
    /\ script = <<>>
    /\ conc = NoLimitCall

\* GET /sessions/:sessionId/messages?limit=param by the session's owner:
\* the limit is computed and handed to getConversationHistory.  A limit
\* that is no number makes the query throw or run without a limit.
LimitRequest ==
    /\ pc = "limit"
    /\ \E param \in LimitParams :
          LET limit == RouteLimit(ver, param)
              total == Len(SessionMessages(store, "s1"))
          IN IF limit.nan
             THEN \E threw \in BOOLEAN :
                    conc' = [asked |-> TRUE, param |-> param, limit |-> limit,
                             threw |-> threw,
                             returned |-> IF threw THEN 0 ELSE total]
             ELSE conc' = [asked |-> TRUE, param |-> param, limit |-> limit,
                           threw |-> FALSE,
                           returned |-> CursorLimit(limit.n, total)]
    /\ UNCHANGED <<ver, pc, rw, req, loc, fs, store, prov, resp, script>>

NextLimit == LimitRequest

SpecLimit == InitLimit /\ [][NextLimit]_vars

\* ------------------------- SpecChat: the v2 client component VoiceChat

\* sendAudio calls made during the run.
ChatCalls == {"c1", "c2"}

\* Faulty variant: the finally block leaves the status as it is.
FinallyStatusKeep(status) == status
\* finally { setStatus((s) => (s === 'sending' ? 'idle' : s)) }
FinallyStatus(status) == IF status = "sending" THEN "idle" ELSE status

\* status; the recorder (off, asking for the microphone, on, stopping with
\* its onstop event pending); each sendAudio call (idle, request awaiting
\* sendVoice, play awaiting audioEl.play(), done); each call's audio element
\* (none, armed with onended / onerror, fired, dead).
NoChat ==
    [status |-> "idle", mic |-> "off",
     call |-> [c \in ChatCalls |-> "idle"],
     audio |-> [c \in ChatCalls |-> "none"]]

InitChat ==
    /\ ver = "v2"
    /\ pc = "chat"
    /\ rw = RetryIdle
    /\ req = NoRequest
    /\ loc = NoLocals
    /\ fs = {}
    /\ store = InitialStore
    /\ prov = NoCalls
    /\ resp = NoResponse
    /\ script = <<>>
    /\ conc = NoChat

\* sendAudio(blob) up to the await of sendVoice, the session being known:
\* setStatus('sending').
sendAudioStart(chat, c) ==
    [chat EXCEPT !.status = "sending", !.call[c] = "request"]

\* The Record button (shown when status is not 'recording', disabled while
\* 'sending' or 'playing'): startRecording awaits getUserMedia.
ChatRecordClick ==
    /\ pc = "chat"
    /\ conc.status = "idle"
    /\ conc.mic = "off"
    /\ conc' = [conc EXCEPT !.mic = "asking"]
    /\ UNCHANGED <<ver, pc, rw, req, loc, fs, store, prov, resp, script>>

\* getUserMedia settles: recorder.start(), setStatus('recording'); or the
\* catch block when the microphone is refused.
ChatMicSettled ==
    /\ pc = "chat"
    /\ conc.mic = "asking"
    /\ \/ conc' = [conc EXCEPT !.mic = "on", !.status = "recording"]
       \/ conc' = [conc EXCEPT !.mic = "off"]
    /\ UNCHANGED <<ver, pc, rw, req, loc, fs, store, prov, resp, script>>

\* The Stop button (shown when status is 'recording'): stopRecording.
ChatStopClick ==
    /\ pc = "chat"
    /\ conc.status = "recording"
    /\ conc' = [conc EXCEPT !.status = "idle",
                            !.mic = IF @ = "on" THEN "stopping" ELSE @]
    /\ UNCHANGED <<ver, pc, rw, req, loc, fs, store, prov, resp, script>>

\* recorder.onstop: if (blob.size > 0) sendAudio(blob).
ChatOnStop ==
    /\ pc = "chat"
    /\ conc.mic = "stopping"
    /\ \/ conc' = [conc EXCEPT !.mic = "off"]
       \/ \E c \in ChatCalls :
            /\ conc.call[c] = "idle"
            /\ conc' = sendAudioStart([conc EXCEPT !.mic = "off"], c)
    /\ UNCHANGED <<ver, pc, rw, req, loc, fs, store, prov, resp, script>>

\* The Upload input (disabled while 'sending', 'playing' or 'recording'):
\* handleFile calls sendAudio(file).
ChatHandleFile ==
    /\ pc = "chat"
    /\ conc.status = "idle"
    /\ \E c \in ChatCalls :
          /\ conc.call[c] = "idle"
          /\ conc' = sendAudioStart(conc, c)
    /\ UNCHANGED <<ver, pc, rw, req, loc, fs, store, prov, resp, script>>

\* sendVoice settles.  Resolved: the audio element gets its handlers and
\* setStatus('playing'), then play() is awaited.  Rejected (error response,
\* network error, the 120 s abort): catch sets 'idle', then finally.
ChatRequestSettled(c) ==
    /\ pc = "chat"
    /\ conc.call[c] = "request"
    /\ \E outcome \in {"ok", "failed", "timeout"} :
          conc' = IF outcome = "ok"
                  THEN [conc EXCEPT !.status = "playing", !.call[c] = "play",
                                    !.audio[c] = "armed"]
                  ELSE [conc EXCEPT !.status = FinallyStatus("idle"),
                                    !.call[c] = "done"]
    /\ UNCHANGED <<ver, pc, rw, req, loc, fs, store, prov, resp, script>>

\* audioEl.play() settles.  Resolved: finally.  Rejected: catch sets
\* 'idle', then finally; the element may never fire an event.
ChatPlaySettled(c) ==
    /\ pc = "chat"
    /\ conc.call[c] = "play"
    /\ \/ conc' = [conc EXCEPT !.status = FinallyStatus(@), !.call[c] = "done"]
       \/ \E a \in {conc.audio[c], "dead"} :
            conc' = [conc EXCEPT !.status = FinallyStatus("idle"),
                                 !.call[c] = "done", !.audio[c] = a]
    /\ UNCHANGED <<ver, pc, rw, req, loc, fs, store, prov, resp, script>>

\* audioEl.onended / audioEl.onerror: setStatus('idle').
ChatAudioFired(c) ==
    /\ pc = "chat"
    /\ conc.audio[c] = "armed"
    /\ conc' = [conc EXCEPT !.status = "idle", !.audio[c] = "fired"]
    /\ UNCHANGED <<ver, pc, rw, req, loc, fs, store, prov, resp, script>>

NextChat ==
    \/ ChatRecordClick
    \/ ChatMicSettled
    \/ ChatStopClick
    \/ ChatOnStop
    \/ ChatHandleFile
    \/ \E c \in ChatCalls :
          \/ ChatRequestSettled(c)
          \/ ChatPlaySettled(c)
          \/ ChatAudioFired(c)

\* Every request settles, every play() settles and every armed audio
\* element fires onended or onerror.
SpecChat ==
    /\ InitChat
    /\ [][NextChat]_vars
    /\ \A c \in ChatCalls :
          /\ WF_vars(ChatRequestSettled(c))
          /\ WF_vars(ChatPlaySettled(c))
          /\ WF_vars(ChatAudioFired(c))

\* ------------------------- SpecRecorder: the v1 client page (recording)

\* Clock ticks that make up SILENCE_DURATION_MS.
SilenceTicks == 2
\* The MediaRecorders created during the run.
Recorders == {"r1", "r2"}

\* isRecording, isProcessing: the React state.  rec: each recorder (none,
\* asking for the microphone, recording, stopping with onstop pending,
\* done).  ref: mediaRecorderRef.  frame: the detection loops that have an
\* animation frame scheduled; animRef: the loop whose frame id is in
\* animFrameRef.  hasSpoken: hasSpokenRef.  timers: countdown timers
\* pending; timerRef: silenceTimerRef is set; left: ticks until the pending
\* timer is due; loud: a level above the threshold was sampled since the
\* timer was set.  inflight: sendAudio calls not yet finished.  auto: the
\* last step was the timer's auto-stop.
NoRecorder ==
    [isRecording |-> FALSE, isProcessing |-> FALSE,
     rec |-> [x \in Recorders |-> "none"], ref |-> "none",
     frame |-> {}, animRef |-> "none",
     hasSpoken |-> FALSE, timers |-> 0, timerRef |-> FALSE, left |-> 0,
     loud |-> FALSE, inflight |-> 0, auto |-> FALSE]

InitRecorder ==
    /\ ver = "v1"
    /\ pc = "recorder"
    /\ rw = RetryIdle
    /\ req = NoRequest
    /\ loc = NoLocals
    /\ fs = {}
    /\ store = InitialStore
    /\ prov = NoCalls
    /\ resp = NoResponse
    /\ script = <<>>
    /\ conc = NoRecorder

\* checkLevel of loop x with the sampled level above the threshold or not.
checkLevel(st, x, above) ==
    LET a == IF above
             THEN [st EXCEPT !.hasSpoken = TRUE, !.loud = TRUE,
                             !.timers = IF st.timerRef THEN @ - 1 ELSE @,
                             !.timerRef = FALSE]
             ELSE IF st.hasSpoken /\ ~st.timerRef
             THEN [st EXCEPT !.timers = @ + 1, !.timerRef = TRUE,
                             !.left = SilenceTicks, !.loud = FALSE]
             ELSE st
    IN [a EXCEPT !.frame = @ \cup {x}, !.animRef = x, !.auto = FALSE]

\* stopSilenceDetection: the frame and the timer the refs name are
\* cancelled and the refs cleared.
stopSilenceDetection(st) ==
    [st EXCEPT !.frame = @ \ {st.animRef}, !.animRef = "none",
               !.timers = IF st.timerRef /\ @ > 0 THEN @ - 1 ELSE @,
               !.timerRef = FALSE]

\* stopRecordingInternal
stopRecordingInternal(st) ==
    LET a == stopSilenceDetection(st) IN
    [a EXCEPT !.rec = IF a.ref # "none" /\ a.rec[a.ref] = "recording"
                      THEN [@ EXCEPT ![a.ref] = "stopping"] ELSE @,
              !.isRecording = FALSE]

\* The record button with isRecording false: startRecording passes its
\* guard and awaits getUserMedia.
RecStartClick ==
    /\ pc = "recorder"
    /\ ~conc.isProcessing /\ ~conc.isRecording
    /\ \E x \in Recorders :
          /\ conc.rec[x] = "none"
          /\ conc' = [conc EXCEPT !.rec[x] = "asking", !.auto = FALSE]
    /\ UNCHANGED <<ver, pc, rw, req, loc, fs, store, prov, resp, script>>

\* getUserMedia settles: the recorder is created and started,
\* setIsRecording(true), startSilenceDetection runs checkLevel once; or the
\* microphone is refused.
RecMicSettled(x) ==
    /\ pc = "recorder"
    /\ conc.rec[x] = "asking"
    /\ \/ \E above \in BOOLEAN :
            conc' = checkLevel([conc EXCEPT !.rec[x] = "recording", !.ref = x,
                                            !.isRecording = TRUE,
                                            !.hasSpoken = FALSE], x, above)
       \/ conc' = [conc EXCEPT !.rec[x] = "done", !.auto = FALSE]
    /\ UNCHANGED <<ver, pc, rw, req, loc, fs, store, prov, resp, script>>

\* The animation frame of loop x runs checkLevel.
RecFrame(x) ==
    /\ pc = "recorder"
    /\ x \in conc.frame
    /\ \E above \in BOOLEAN : conc' = checkLevel(conc, x, above)
    /\ UNCHANGED <<ver, pc, rw, req, loc, fs, store, prov, resp, script>>

\* Time passes while a countdown is pending.
RecTick ==
    /\ pc = "recorder"
    /\ conc.timers > 0 /\ conc.left > 0
    /\ conc' = [conc EXCEPT !.left = @ - 1, !.auto = FALSE]
    /\ UNCHANGED <<ver, pc, rw, req, loc, fs, store, prov, resp, script>>

\* The countdown timer is due: its callback calls stopRecordingInternal.
RecTimerFire ==
    /\ pc = "recorder"
    /\ conc.timers > 0 /\ conc.left = 0
    /\ conc' = [stopRecordingInternal([conc EXCEPT !.timers = @ - 1])
                   EXCEPT !.auto = TRUE]
    /\ UNCHANGED <<ver, pc, rw, req, loc, fs, store, prov, resp, script>>

\* stopRecording (button, stop link, keyboard): only when isRecording.
RecStopClick ==
    /\ pc = "recorder"
    /\ conc.isRecording
    /\ conc' = [stopRecordingInternal(conc) EXCEPT !.auto = FALSE]
    /\ UNCHANGED <<ver, pc, rw, req, loc, fs, store, prov, resp, script>>

\* mediaRecorder.onstop: a non-empty blob is handed to sendAudio, which
\* sets isProcessing and awaits the request.
RecOnStop(x) ==
    /\ pc = "recorder"
    /\ conc.rec[x] = "stopping"
    /\ \/ conc' = [conc EXCEPT !.rec[x] = "done", !.auto = FALSE]
       \/ conc' = [conc EXCEPT !.rec[x] = "done", !.auto = FALSE,
                               !.isProcessing = TRUE, !.inflight = @ + 1]
    /\ UNCHANGED <<ver, pc, rw, req, loc, fs, store, prov, resp, script>>

\* A sendAudio call ends: finally { setIsProcessing(false) }.
RecSendDone ==
    /\ pc = "recorder"
    /\ conc.inflight > 0
    /\ conc' = [conc EXCEPT !.inflight = @ - 1, !.isProcessing = FALSE,
                            !.auto = FALSE]
    /\ UNCHANGED <<ver, pc, rw, req, loc, fs, store, prov, resp, script>>

NextRecorder ==
    \/ RecStartClick
    \/ RecTick
    \/ RecTimerFire
    \/ RecStopClick
    \/ RecSendDone
    \/ \E x \in Recorders :
          \/ RecMicSettled(x)
          \/ RecFrame(x)
          \/ RecOnStop(x)

SpecRecorder == InitRecorder /\ [][NextRecorder]_vars

\* -------------- SpecTimeout: sendVoice (v2 client) and handleConversation

\* VOICE_REQUEST_TIMEOUT_MS and the axios timeout of transcribeAudio, in
\* seconds.
VoiceRequestTimeoutS == 120
SttCallTimeoutS == 120
\* Granularity of the clock and the longest run considered, in seconds.
TimeoutTickS == 60
MaxElapsedS == 360

\* client: sendVoice is waiting for fetch, has reported 'Request timed
\* out', or has received the response.  server: the step
\* handleConversation is at.  elapsed: seconds since the request was sent;
\* call: seconds the current transcription call has been pending;
\* sttCalls: transcription calls that failed.
NoTimeout == [client |-> "waiting", server |-> "stt", elapsed |-> 0,
              call |-> 0, sttCalls |-> 0]

InitTimeout ==
    /\ ver = "v2"
    /\ pc = "timeout"
    /\ rw = RetryIdle
    /\ req = NoRequest
    /\ loc = NoLocals
    /\ fs = {}
    /\ store = InitialStore
    /\ prov = NoCalls
    /\ resp = NoResponse
    /\ script = <<>>
    /\ conc = NoTimeout

\* Time passes while the handler awaits a call.  The client's timer fires
\* at VoiceRequestTimeoutS unless it was cleared; a transcription call is
\* ended by its own timeout at SttCallTimeoutS.
TimeoutPass ==
    /\ pc = "timeout"
    /\ conc.server \notin {"respond", "error", "done"}
    /\ conc.elapsed + TimeoutTickS <= MaxElapsedS
    /\ conc.client = "waiting" => conc.elapsed < VoiceRequestTimeoutS
    /\ conc.server = "stt" => conc.call + TimeoutTickS <= SttCallTimeoutS
    /\ conc' = [conc EXCEPT !.elapsed = @ + TimeoutTickS,
                            !.call = IF conc.server = "stt"
                                     THEN @ + TimeoutTickS ELSE @]
    /\ UNCHANGED <<ver, pc, rw, req, loc, fs, store, prov, resp, script>>

\* The AbortController timer fires: fetch rejects with AbortError and
\* sendVoice throws 'Request timed out'.  The handler does not read the
\* request's signal and goes on.
TimeoutAbort ==
    /\ pc = "timeout"
    /\ conc.client = "waiting"
    /\ conc.elapsed >= VoiceRequestTimeoutS
    /\ conc' = [conc EXCEPT !.client = "timed_out"]
    /\ UNCHANGED <<ver, pc, rw, req, loc, fs, store, prov, resp, script>>

\* One transcription call of retryWithBackoff(() => transcribeAudio, 2)
\* ends: with a transcript, with a terminal error, or with a retryable
\* error (the call's own timeout among them).
TimeoutStt ==
    /\ pc = "timeout"
    /\ conc.server = "stt"
    /\ \/ /\ conc.call < SttCallTimeoutS
          /\ conc' = [conc EXCEPT !.server = "llm", !.call = 0]
          /\ prov' = [prov EXCEPT !.stt = @ + 1]
       \/ /\ conc.call < SttCallTimeoutS
          /\ conc' = [conc EXCEPT !.server = "error", !.call = 0]
          /\ prov' = [prov EXCEPT !.stt = @ + 1]
       \/ /\ conc' = [conc EXCEPT !.sttCalls = @ + 1, !.call = 0,
                                  !.server = IF conc.sttCalls < PipelineRetries
                                             THEN "stt" ELSE "error"]
          /\ prov' = [prov EXCEPT !.stt = @ + 1]
    /\ UNCHANGED <<ver, pc, rw, req, loc, fs, store, resp, script>>

\* Generation, then synthesis: each ends with its result or with an error.
TimeoutStep ==
    /\ pc = "timeout"
    /\ conc.server \in {"llm", "tts"}
    /\ \/ conc' = [conc EXCEPT !.server = IF @ = "llm" THEN "tts"
                                          ELSE "save_user"]
       \/ conc' = [conc EXCEPT !.server = "error"]
    /\ prov' = [prov EXCEPT ![conc.server] = @ + 1]
    /\ UNCHANGED <<ver, pc, rw, req, loc, fs, store, resp, script>>

\* saveMessage(user), then saveMessage(assistant).
TimeoutSave ==
    /\ pc = "timeout"
    /\ conc.server \in {"save_user", "save_assistant"}
    /\ store' = saveMessage(Advance(store, 1), SharedSession,
                            IF conc.server = "save_user" THEN "user"
                            ELSE "assistant",
                            IF conc.server = "save_user"
                            THEN Text("said", 5, FALSE)
                            ELSE Text("reply", 9, FALSE))
    /\ conc' = [conc EXCEPT !.server = IF @ = "save_user"
                                       THEN "save_assistant" ELSE "respond"]
    /\ prov' = [prov EXCEPT !.saveMessage = @ + 1]
    /\ UNCHANGED <<ver, pc, rw, req, loc, fs, resp, script>>

\* The handler returns its response.  A client still waiting receives it
\* and clears its timer; after an abort nobody receives it.
TimeoutRespond ==
    /\ pc = "timeout"
    /\ conc.server \in {"respond", "error"}
    /\ conc' = [conc EXCEPT !.server = "done",
                            !.client = IF @ = "waiting" THEN "received" ELSE @]
    /\ resp' = [NoResponse EXCEPT !.sent = TRUE,
                                  !.audio = (conc.server = "respond"),
                                  !.status = IF conc.server = "respond"
                                             THEN 200 ELSE 500]
    /\ UNCHANGED <<ver, pc, rw, req, loc, fs, store, prov, script>>

NextTimeout ==
    \/ TimeoutPass
    \/ TimeoutAbort
    \/ TimeoutStt
    \/ TimeoutStep
    \/ TimeoutSave
    \/ TimeoutRespond

SpecTimeout == InitTimeout /\ [][NextTimeout]_vars

\* ------------------------------------------------ claims on the wrapper

\* The error carries a client-class status where the implementation reads it:
\* error.status in v1, error.response.status in v2.
CarriesClientStatus(v, e) ==
    /\ IF v = "v1" THEN e.shape \in {"top", "both"} ELSE e.shape \in {"resp", "both"}
    /\ e.code >= 400
    /\ e.code <= 499

\* The error carries, where the implementation reads it, a status below 400.
CarriesSubClientStatus(v, e) ==
    /\ IF v = "v1" THEN e.shape \in {"top", "both"} ELSE e.shape \in {"resp", "both"}
    /\ e.code < 400

EveryCallFailed(Retryable(_, _)) ==
    \A i \in 1..Len(script) :
        ~script[i].ok /\ Retryable(ver, script[i].err)

\* The wrapper stops after exactly maxRetries + 1 calls and raises what the
\* last call threw (v1 hands a thrown non-Error value on inside a new Error).
CappedAndRaisesLast ==
    /\ rw.calls <= rw.maxRetries + 1
    /\ rw.state = "running" => rw.calls <= rw.maxRetries
    /\ rw.state # "running" =>
          /\ rw.state = "thrown"
          /\ rw.calls = rw.maxRetries + 1
          /\ rw.raised.id = rw.calls
          /\ script[rw.calls].err.isErr => rw.raised = script[rw.calls].err

NotClientStatus(v, e) == ~CarriesClientStatus(v, e)
NotClientNorV2Below500(v, e) ==
    /\ ~CarriesClientStatus(v, e)
    /\ v = "v2" => ~CarriesSubClientStatus(v, e)

\* C5 as claimed: an operation that fails on every call with an error that
\* carries no client-class (400..499) status is called exactly maxRetries + 1
\* times, then the error of the last attempt is raised.
C5_RetryCap_AsClaimed ==
    (pc = "retry" /\ rw.state # "idle" /\ EveryCallFailed(NotClientStatus))
        => CappedAndRaisesLast

\* C5 amended: the same, where in v2 a retryable error is one that carries no
\* response.status below 500 (v2 treats every response.status < 500 as
\* terminal, not only 400..499).
C5_RetryCap ==
    (pc = "retry" /\ rw.state # "idle" /\ EveryCallFailed(NotClientNorV2Below500))
        => CappedAndRaisesLast

C5_Witness ==
    /\ pc = "retry"
    /\ rw.maxRetries = PipelineRetries
    /\ rw.state = "thrown"
    /\ rw.calls = 3
    /\ EveryCallFailed(NotClientNorV2Below500)
    /\ script[3].err.code = 500

\* C6: when the first call fails with a client-class status (error.status in
\* v1, error.response.status in v2), the operation is called exactly once, no
\* backoff wait happens and that same error is re-raised.
C6_NoRetryOnTerminal ==
    (/\ pc = "retry"
     /\ rw.calls >= 1
     /\ ~script[1].ok
     /\ CarriesClientStatus(ver, script[1].err))
        => /\ rw.state = "thrown"
           /\ rw.calls = 1
           /\ rw.waits = <<>>
           /\ rw.raised = script[1].err

C6_Witness ==
    /\ pc = "retry"
    /\ ver = "v1"
    /\ rw.maxRetries = PipelineRetries
    /\ rw.state = "thrown"
    /\ rw.calls = 1
    /\ script[1].err.shape = "top"
    /\ script[1].err.code = 400

\* C8: v2 sleeps 1 s, 2 s, 4 s, ... (2^attempt seconds after the failed
\* attempt number attempt), once after every failed attempt that is followed
\* by another one, and never after the final attempt or a terminal error.
ExpectedV2WaitsMs == <<1000, 2000, 4000, 8000, 16000, 32000>>

C8_BackoffScheduleV2 ==
    (pc = "retry" /\ ver = "v2" /\ rw.state # "idle") =>
        /\ \A i \in 1..Len(rw.waits) : rw.waits[i] = ExpectedV2WaitsMs[i]
        /\ Len(rw.waits) = IF rw.state = "running" THEN rw.calls ELSE rw.calls - 1

C8_Witness ==
    /\ pc = "retry"
    /\ ver = "v2"
    /\ rw.state = "thrown"
    /\ rw.waits = <<1000, 2000>>
    /\ rw.calls = 3

\* ---------------------------------------------- claims on the pipelines

TempFiles == {UploadPath, OutputPath(UploadPath)}
UploadWritten == loc.audioFilePath # "none"

NoProviderCalled == prov.stt = 0 /\ prov.llm = 0 /\ prov.tts = 0

NewMessages(role) ==
    {i \in (Len(InitialStore.messages) + 1)..Len(store.messages) :
        store.messages[i].role = role}

\* C1: v1 voice route: on every exit path taken after the upload was
\* written to disk, neither the upload nor the transcoded .wav exists when
\* the response is returned.
C1_V1NoTempFileAtResponse ==
    (ver = "v1" /\ resp.sent /\ UploadWritten) => fs \cap TempFiles = {}

\* C2: v2 handleConversation: on every exit path taken after the upload was
\* written to disk, the upload and the transcoded .wav are both gone when
\* the response is returned.
C2_V2NoTempFileAtResponse ==
    (ver = "v2" /\ resp.sent /\ UploadWritten) => fs \cap TempFiles = {}

\* C3: in both pipelines, when transcription, generation or synthesis fails
\* (retries exhausted or terminal error), the invocation calls saveMessage
\* zero times and persists neither message.
C3_TurnAtomicity ==
    (pc \in RetrySteps \/ (resp.sent /\ loc.failedAt \in RetrySteps)) =>
        /\ prov.saveMessage = 0
        /\ store.messages = InitialStore.messages

C3_Witness ==
    /\ resp.sent
    /\ loc.failedAt = "llm"
    /\ prov.stt = 1
    /\ prov.llm = 3
    /\ prov.saveMessage = 0

\* C4: in both pipelines, after an invocation has returned, it has written
\* as many user messages as assistant messages (both 0 or both 1), also when
\* the store accepts the first saveMessage and fails the second.
C4_MessagePairing ==
    resp.sent => Cardinality(NewMessages("user")) = Cardinality(NewMessages("assistant"))

\* C7: in both pipelines, a provider that rejects a call with a client-class
\* 4xx status is called exactly once in that invocation.
C7_Provider4xxCalledOnce ==
    \A p \in prov.first4xx : prov[p] = 1

\* C9: in both pipelines, an upload larger than the maximum size is answered
\* 400 VALIDATION_ERROR, and that invocation calls no provider, creates or
\* updates no session and writes no message.
C9_ValidationGate ==
    (req.auth = "ok" /\ req.hasAudio /\ req.size > MaxBytes) =>
        /\ NoProviderCalled
        /\ prov.saveMessage = 0
        /\ store = InitialStore
        /\ pc \in {"validate", "done"}
        /\ resp.sent => (resp.status = 400 /\ resp.error = "VALIDATION_ERROR")

C9_Witness ==
    /\ ver = "v2"
    /\ resp.sent
    /\ req.auth = "ok"
    /\ req.size = MaxBytes + 1
    /\ loc.failedAt = "validate"
    /\ resp.error = "VALIDATION_ERROR"

\* C10: v2 handleConversation rejects an upload whose declared media type
\* is not in the allow-list with a validation error, before any provider
\* call is made.
C10_V2MimeAllowList ==
    (ver = "v2" /\ req.auth = "ok" /\ req.hasAudio /\ ~isAllowedMime(req.mime)) =>
        /\ NoProviderCalled
        /\ resp.sent => resp.error = "VALIDATION_ERROR"

\* ------------------------------------------------ claims C11 .. C20

FailureResponse == resp.sent /\ resp.status >= 400 /\ ~resp.audio

C12_CallerInput4xx ==
    (resp.sent /\ (\/ loc.failedAt = "empty_transcript"
                   \/ (loc.failedAt = "tts" /\ loc.responseText.len > TtsMaxChars)))
        => (resp.status = 400 /\ resp.error = "VALIDATION_ERROR")

\* C13: in both pipelines, once the generation provider has answered
\* successfully with no text, generateResponse is not invoked again, the
\* invocation fails, synthesizeSpeech is never invoked and no message is
\* persisted.
C13_EmptyGenerationTerminal ==
    prov.llmEmpty >= 1 =>
        /\ pc = "done"
        /\ FailureResponse
        /\ prov.llmEmpty = 1
        /\ prov.generateResponse = Len(rw.waits) + 1
        /\ prov.synthesizeSpeech = 0
        /\ prov.saveMessage = 0
        /\ store.messages = InitialStore.messages

\* C14: in both pipelines, when the reply is longer than 4096 characters the
\* synthesis provider is never called, synthesizeSpeech is invoked exactly
\* once inside its retryWithBackoff and no backoff wait happens.
C14_SynthesisCeiling ==
    (loc.responseText.len > TtsMaxChars /\ prov.synthesizeSpeech >= 1) =>
        /\ prov.tts = 0
        /\ prov.synthesizeSpeech = 1
        /\ rw.waits = <<>>
        /\ rw.state = "thrown"

SessionStepDone ==
    loc.activeSessionId # "none" \/ loc.failedAt \in {"session", "session_lookup"}

OwnedByCaller(sessionId) ==
    /\ sessionId \in DOMAIN InitialStore.sessions
    /\ InitialStore.sessions[sessionId].userId = Caller

\* C15: in both versions, getOrCreateSession(userId, sessionId) returns the
\* supplied id and creates no session exactly when that id is an existing
\* session of userId; for no id, an unknown id, a malformed id or another
\* user's session it raises no lookup error, creates exactly one session
\* owned by userId and returns its id.
C15_SessionResolver ==
    SessionStepDone =>
        /\ loc.failedAt # "session_lookup"
        /\ loc.activeSessionId # "none" =>
              IF OwnedByCaller(req.sessionId)
              THEN /\ loc.activeSessionId = req.sessionId
                   /\ DOMAIN store.sessions = DOMAIN InitialStore.sessions
              ELSE /\ loc.activeSessionId \notin DOMAIN InitialStore.sessions
                   /\ DOMAIN store.sessions =
                         DOMAIN InitialStore.sessions \cup {loc.activeSessionId}
                   /\ store.sessions[loc.activeSessionId].userId = Caller

\* C16: lastActivityAt of every session never decreases, over every
\* interleaving of getOrCreateSession calls, two concurrent requests on the
\* same session included.
C16_LastActivityMonotonic ==
    [][\A sid \in DOMAIN store.sessions :
          /\ sid \in DOMAIN store'.sessions
          /\ store'.sessions[sid].lastActivityAt >= store.sessions[sid].lastActivityAt]_vars

Loaded == pc = "history_calls" /\ conc.loaded

StrictlyAscending(msgs) ==
    \A i, j \in 1..Len(msgs) : i < j => msgs[i].createdAt < msgs[j].createdAt

Contents(h) == {h[i].content : i \in 1..Len(h)}

\* C17: in both versions, getConversationHistory(sessionId, limit) on a
\* session of n messages returns min(n, limit) messages in ascending creation
\* order, and they are the most recent ones: when n > limit the newest
\* message is in the result and the oldest is not.
C17_HistoryWindow ==
    (Loaded /\ StrictlyAscending(conc.seen)) =>
        LET n == Len(conc.seen) IN
        /\ Len(conc.result) = IF n < conc.limit THEN n ELSE conc.limit
        /\ n > conc.limit =>
              /\ conc.seen[n].content \in Contents(conc.result)
              /\ conc.seen[1].content \notin Contents(conc.result)

\* C18: after saveMessage was called sequentially for fewer messages than
\* the limit, getConversationHistory returns them in the order they were
\* written, also when consecutive writes got the same creation timestamp;
\* an empty session yields the empty list.
C18_HistoryOrder ==
    (Loaded /\ Len(conc.seen) <= conc.limit) =>
        conc.result = AsChatMessages(conc.seen)

\* C19: in both pipelines, an invocation that returns audio has appended
\* exactly two messages to the resolved session, after all messages the store
\* held: first role user with the transcript, then role assistant with the
\* generated reply; no existing message is changed or removed and no other
\* session is written to.
C19_SuccessfulTurnEffect ==
    resp.audio =>
        LET n == Len(InitialStore.messages) IN
        /\ resp.sessionId = loc.activeSessionId
        /\ Len(store.messages) = n + 2
        /\ SubSeq(store.messages, 1, n) = InitialStore.messages
        /\ store.messages[n + 1].sessionId = loc.activeSessionId
        /\ store.messages[n + 1].role = "user"
        /\ store.messages[n + 1].content = loc.transcript
        /\ store.messages[n + 2].sessionId = loc.activeSessionId
        /\ store.messages[n + 2].role = "assistant"
        /\ store.messages[n + 2].content = loc.responseText
        /\ store.messages[n + 1].createdAt <= store.messages[n + 2].createdAt
        /\ \A sid \in DOMAIN InitialStore.sessions \ {loc.activeSessionId} :
              store.sessions[sid] = InitialStore.sessions[sid]

C19_Witness ==
    /\ resp.audio
    /\ resp.status = 200
    /\ req.sessionId = "s1"
    /\ loc.activeSessionId = "s1"
    /\ Len(SessionMessages(store, "s1")) = 4
    /\ store.messages[4].content = Text("reply", 12, FALSE)

\* C20: in both pipelines, when the generation provider answers every
\* attempt with 503, the invocation makes exactly 3 generation attempts,
\* persists no message, deletes its temp files and answers with the 502
\* upstream-failure classification, not a generic 500.
C20_ExhaustedTransientIs502 ==
    (resp.sent /\ loc.failedAt = "llm" /\ ~prov.llmNot503) =>
        /\ prov.llm = 3
        /\ prov.generateResponse = 3
        /\ prov.saveMessage = 0
        /\ store.messages = InitialStore.messages
        /\ fs \cap TempFiles = {}
        /\ resp.status = 502

\* ------------------------------------------------ claims C21 .. C30

\* The invocation failed in a provider step, and the latest provider call
\* is what failed.
ProviderFailed ==
    resp.sent /\ loc.failedAt \in RetrySteps /\ prov.last.kind # "ok"

\* C21: in both versions, when a provider call fails with status 429 the
\* caller receives 429 RATE_LIMIT_EXCEEDED and the provider was called at most
\* 3 times; no failure that is not a rate-limit failure is answered
\* RATE_LIMIT_EXCEEDED.
C21_RateLimitSurfaced ==
    /\ (ProviderFailed /\ prov.last.code = 429) =>
          /\ resp.status = 429
          /\ resp.error = "RATE_LIMIT_EXCEEDED"
          /\ prov[loc.failedAt] <= 3
    /\ (resp.sent /\ resp.error = "RATE_LIMIT_EXCEEDED") =>
          (ProviderFailed /\ prov.last.code = 429)

\* C22: outside development mode, the error body of an invocation that
\* failed on a provider error does not depend on the provider's error text:
\* its message is a text written in the code, never the error's message.
C22_NoProviderTextLeak ==
    ProviderFailed => resp.message = "fixed"

\* C23: in both pipelines, when the transcoding tool is unavailable or
\* fails, the invocation is not aborted: prepareAudioForWhisper yields the
\* original path and the pipeline goes on to the transcription provider.
C23_TranscoderFallback ==
    /\ loc.failedAt # "prepare"
    /\ (pc = "stt" /\ loc.preparedPath = loc.audioFilePath) => UploadPath \in fs

\* C24: in both versions, when the media probe fails or yields no usable
\* duration, validateAudio returns valid: false, so the invocation ends with
\* a validation rejection and no provider is called.
C24_ProbeFailureRejects ==
    loc.probe \in {"fail", "nan"} =>
        /\ pc = "done"
        /\ loc.failedAt = "validate"
        /\ resp.status = 400
        /\ resp.error = "VALIDATION_ERROR"
        /\ NoProviderCalled

\* C25 as stated: in v1 (authenticate) and v2 (withAuth), a request without
\* a valid bearer credential is answered 401 and nothing of the pipeline
\* runs: no temp file is written, no session is read, created or updated,
\* no provider is called, no message is written.
C25_AuthGate401 ==
    (resp.sent /\ req.key # "valid") =>
        /\ resp.status = 401
        /\ loc.failedAt = "auth"
        /\ fs = {} /\ store = InitialStore
        /\ NoProviderCalled /\ prov.saveMessage = 0

\* C25, amended: a request without a valid bearer credential never gets
\* past authentication, so nothing of the pipeline runs; it is answered 401
\* when the header is missing or the key lookup finds no user, and 500
\* (v1) or 503 / 500 (v2) when the key lookup itself throws.
C25_AuthGate ==
    (req.key \notin {"valid"} /\ req # NoRequest) =>
        /\ pc = "done" /\ resp.sent
        /\ loc.failedAt = "auth"
        /\ fs = {} /\ store = InitialStore
        /\ NoProviderCalled /\ prov.saveMessage = 0
        /\ req.auth \in {"missing", "invalid"} => resp.status = 401
        /\ req.auth = "error" =>
              resp.status \in (IF ver = "v1" THEN {500} ELSE {500, 503})

C25_Witness ==
    /\ resp.sent
    /\ req.auth = "invalid" /\ req.hasAudio /\ req.size = 1000
    /\ req.mime = "audio/webm"
    /\ resp.status = 401 /\ resp.error = "INVALID_API_KEY"

\* Contents of the messages held by the sessions user u owns.
ContentsOwnedBy(u) ==
    {store.messages[i].content : i \in
        {j \in 1..Len(store.messages) :
            store.sessions[store.messages[j].sessionId].userId = u}}

ForeignSessions(u) ==
    {sid \in DOMAIN store.sessions : store.sessions[sid].userId # u}

\* What the last GET answered holds nothing of another user's session.
NoForeignRead ==
    conc.last.route \in {"session", "messages"} =>
        /\ conc.last.sessionId \in ForeignSessions(conc.last.userId) =>
              /\ conc.last.status = 404
              /\ conc.last.error = "SESSION_NOT_FOUND"
              /\ conc.last.session = <<>> /\ conc.last.messages = <<>>
        /\ \A i \in DOMAIN conc.last.session :
              conc.last.session[i].userId = conc.last.userId
        /\ \A i \in DOMAIN conc.last.messages :
              conc.last.messages[i].content \in ContentsOwnedBy(conc.last.userId)

\* A step of a voice turn leaves every session of the other users, and its
\* messages, as they were.
NoForeignWrite ==
    store' # store =>
        \A sid \in ForeignSessions(conc'.last.userId) :
            /\ store'.sessions[sid] = store.sessions[sid]
            /\ SessionMessages(store', sid) = SessionMessages(store, sid)

\* C26: in v1 and v2, over any sequence of requests, an authenticated user
\* never receives the messages or metadata of a session owned by another
\* user (the session and messages GET routes answer 404 SESSION_NOT_FOUND),
\* and a voice turn never appends a message to, or bumps lastActivityAt of,
\* a session owned by another user.
C26_SessionIsolation == []NoForeignRead /\ [][NoForeignWrite]_vars

C26_Witness ==
    /\ conc.last.route = "messages"
    /\ conc.last.userId = Caller /\ conc.last.sessionId = "s2"
    /\ conc.last.status = 404
    /\ Len(SessionMessages(store, "s2")) >= 1
    /\ NewSessionId \in DOMAIN store.sessions
    /\ Len(SessionMessages(store, NewSessionId)) = 2

\* Position of a step in the handler; the steps named by loc.failedAt.
StepRank(step) ==
    CASE step \in {"auth", "gate"} -> 0
      [] step = "validate" -> 1
      [] step \in {"session", "session_lookup"} -> 2
      [] step = "prepare" -> 3
      [] step \in {"stt", "empty_transcript"} -> 4
      [] step = "history" -> 5
      [] step = "llm" -> 6
      [] step = "tts" -> 7
      [] step = "save_user" -> 8
      [] step = "save_assistant" -> 9

\* The step of rank k has left a trace of having been started.
Started(k) ==
    CASE k = 1 -> UploadWritten
      [] k = 2 -> loc.activeSessionId # "none" \/ store.sessions # InitialStore.sessions
      [] k = 3 -> loc.preparedPath # "none"
      [] k = 4 -> prov.stt > 0 \/ prov.transcribeAudio > 0
      [] k = 5 -> loc.history # <<>>
      [] k = 6 -> prov.llm > 0 \/ prov.generateResponse > 0
      [] k = 7 -> prov.tts > 0 \/ prov.synthesizeSpeech > 0
      [] k = 8 -> prov.saveMessage > 0
      [] k = 9 -> prov.saveMessage > 1

Failed == loc.failedAt # "none"

\* After a failure no later step has run, and the failed provider was
\* called by its own retry loop only.
NoLaterStep ==
    Failed =>
        /\ pc = "done" /\ resp.sent /\ resp.status >= 400
        /\ \A k \in (StepRank(loc.failedAt) + 1)..9 : ~Started(k)
        /\ \A p \in RetrySteps : prov[p] <= PipelineRetries + 1
        /\ prov.saveMessage <= 2
        /\ loc.failedAt = "save_user" => prov.saveMessage = 1

\* The failing step writes nothing to the store, calls no provider but its
\* own, and answers; nothing happens after it.
FailureIsFinal ==
    /\ (~Failed /\ Failed') =>
          /\ store' = store
          /\ resp'.sent
          /\ \A p \in RetrySteps :
                 prov'[p] \in (IF p = pc THEN {prov[p], prov[p] + 1}
                               ELSE {prov[p]})
    /\ Failed => UNCHANGED vars

\* C27: in both pipelines, once a step of an invocation has failed, no later
\* pipeline step of that invocation is executed and no failed step is re-run
\* by the orchestrator; the only actions after the failure are temp-file
\* cleanup and building the error response.
C27_FailureShortCircuits == []NoLaterStep /\ [][FailureIsFinal]_vars

C27_Witness ==
    /\ resp.sent /\ loc.failedAt = "llm"
    /\ prov.stt = 1 /\ prov.llm = PipelineRetries + 1
    /\ prov.tts = 0 /\ prov.saveMessage = 0
    /\ store.messages = InitialStore.messages
    /\ fs = {}

\* Nothing is resolved or called before validation has accepted the upload;
\* a provider is called only after the ones before it.
OrderedState ==
    /\ pc \in {"idle", "validate"} => (store = InitialStore /\ NoProviderCalled)
    /\ prov.llm > 0 => prov.stt > 0
    /\ prov.tts > 0 => prov.llm > 0
    /\ prov.saveMessage > 0 => (prov.stt > 0 /\ prov.llm > 0 /\ prov.tts > 0)

\* Each step is taken at its place: transcription before the history load,
\* the load before generation, generation before synthesis, the first save
\* after all three have succeeded, and no store write but the second save
\* after the first.
OrderedStep ==
    /\ prov'.stt > prov.stt => (prov.llm = 0 /\ prov.tts = 0 /\ loc.history = <<>>)
    /\ (pc = "history" /\ pc' # pc) =>
          (prov.stt > 0 /\ loc.transcript # NoText /\ prov.llm = 0)
    /\ prov'.llm > prov.llm => (pc = "llm" /\ prov.tts = 0)
    /\ prov'.tts > prov.tts => (pc = "tts" /\ loc.responseText # NoText)
    /\ prov'.saveMessage > prov.saveMessage =>
          /\ ~Failed
          /\ loc.transcript # NoText /\ loc.responseText # NoText
          /\ prov.tts > 0 /\ prov.last.kind = "ok"
          /\ store'.sessions = store.sessions
    /\ prov.saveMessage > 0 =>
          /\ store'.sessions = store.sessions
          /\ store'.messages # store.messages => prov'.saveMessage = 2
    /\ prov.saveMessage = 2 => store' = store

\* C28: within one invocation, in both pipelines, validation completes
\* before session resolution and before any provider call; the calls happen
\* in the order transcription, history load, generation, synthesis; the
\* first saveMessage starts only after transcription, generation and
\* synthesis have all succeeded; and the two saveMessage calls are the last
\* store writes of the invocation.
C28_StepOrdering == []OrderedState /\ [][OrderedStep]_vars

C28_Witness ==
    /\ resp.sent /\ resp.status = 200
    /\ prov.stt > 1 /\ prov.llm > 1 /\ prov.tts > 1
    /\ prov.saveMessage = 2
    /\ Len(store.messages) = Len(InitialStore.messages) + 2

\* The contents stored for the shared session, in the order of insertion.
StoredContents ==
    [i \in 1..Len(SessionMessages(store, SharedSession)) |->
        SessionMessages(store, SharedSession)[i].content]

Holds(content) == \E i \in DOMAIN StoredContents : StoredContents[i] = content

\* C29: two voice invocations running concurrently against the same session
\* are not serialized - both may load the same history snapshot and their
\* messages may interleave as user1, user2, assistant1, assistant2 - and no
\* reachable state loses a message of a successfully completed turn.
C29_NoLostMessage ==
    \A p \in Procs :
        /\ conc.turn[p].at \in {"save_assistant", "cleanup", "done"} =>
              Holds(Said(p))
        /\ conc.turn[p].at \in {"cleanup", "done"} => Holds(Answered(p))

\* Both turns are complete, both loaded the snapshot taken before either
\* wrote, and the stored messages interleave.
C29_Witness ==
    /\ \A p \in Procs :
          /\ conc.turn[p].at = "done"
          /\ conc.turn[p].history \in
                getConversationHistory(InitialStore, SharedSession, HistoryLimit)
    /\ SubSeq(StoredContents, Len(StoredContents) - 3, Len(StoredContents)) =
          <<Said("p1"), Said("p2"), Answered("p1"), Answered("p2")>>

Running(p) == conc.turn[p].at \notin {"idle", "done"}

\* C30: no two concurrently running invocations ever use the same temp-file
\* path, so the cleanup of one invocation never deletes and never overwrites
\* the audio file of another, in v1 (randomUUID and the upload name) and in
\* v2 (Date.now() and the sanitized upload name).
C30_ArtifactExclusivity ==
    \A p \in Procs :
        Running(p) =>
            /\ \A q \in Procs \ {p} :
                  Running(q) => conc.turn[q].path # conc.turn[p].path
            /\ conc.turn[p].path \in DOMAIN conc.files
            /\ conc.files[conc.turn[p].path] = p

\* ------------------------------------------------ claims C31 .. C38

\* The session's messages as {role, content}, oldest first.
SessionChat == AsChatMessages(SessionMessages(store, "s1"))

\* The prompt is the system instruction, the history's last entries and
\* the utterance, twelve entries at most.
PromptShape ==
    pc = "prompt_sent" =>
        /\ Len(conc) <= PromptHistory + 2
        /\ conc[1] = SystemInstruction
        /\ conc[Len(conc)] = [role |-> "user", content |-> loc.transcript]

\* C31: in both pipelines the prompt sent to the text-generation provider is
\* the fixed system instruction, then the (up to) 10 most recent messages of
\* the session in chronological order, then the new user utterance as the
\* last entry; it never has more than 12 entries, also for a session that
\* already holds more than 20 messages.
C31_GenerationContext ==
    /\ PromptShape
    /\ pc = "prompt_sent" =>
          SubSeq(conc, 2, Len(conc) - 1) = slice(SessionChat, PromptHistory)

\* C32: for every value of the limit query parameter (absent, zero,
\* negative, non-numeric, larger than 100) the limit handed to
\* getConversationHistory is an integer between 1 and 100 and defaults to
\* 20, so the messages endpoint never returns more than 100 messages, in v2
\* and in v1.
C32_MessagesLimit ==
    conc.asked =>
        /\ ~conc.limit.nan
        /\ conc.limit.n >= 1 /\ conc.limit.n <= LimitCap
        /\ conc.param.kind = "absent" => conc.limit.n = HistoryLimit
        /\ conc.returned <= LimitCap

\* A sendAudio call that had set 'sending' returns in this step.
SendAudioFinishes(c) ==
    conc.call[c] \in {"request", "play"} /\ conc'.call[c] = "done"

FinishedNotSending ==
    \A c \in ChatCalls : SendAudioFinishes(c) => conc'.status # "sending"

\* C33: v2 client VoiceChat: whenever a sendAudio call has finished (request
\* succeeded, request failed, client timeout, playback start rejected) the
\* status is no longer 'sending'; and from every state with status 'sending'
\* or 'playing' the status eventually returns to 'idle', provided the
\* request settles and the audio element fires onended or onerror.
C33_NeverStuckSending ==
    /\ [][FinishedNotSending]_vars
    /\ (conc.status \in {"sending", "playing"}) ~> (conc.status = "idle")

\* A call finished by its finally block alone: play() resolved while
\* another call had set 'sending'.
C33_Witness ==
    /\ conc.call["c1"] = "done" /\ conc.audio["c1"] = "armed"
    /\ conc.call["c2"] = "request"
    /\ conc.status = "idle"

\* C34: v1 client silence detection: a recording is stopped automatically
\* only after speech has been detected at least once in that recording and
\* the level then stayed at or below the threshold for 1500 ms without
\* interruption; any level above the threshold during the countdown cancels
\* it; at most one countdown timer is pending at any time; and no countdown
\* or animation-frame callback remains scheduled after the recording has
\* stopped.
C34_SilenceDetection ==
    /\ conc.auto => (conc.hasSpoken /\ ~conc.loud /\ conc.left = 0)
    /\ (conc.timers > 0 /\ conc.loud) => FALSE
    /\ conc.timers <= 1
    /\ ~conc.isRecording => (conc.frame = {} /\ conc.timers = 0)

\* C37: v1 client: at most one voice request is in flight at any time, over
\* every interleaving of startRecording, stopRecording, the silence-timer
\* auto-stop, the recorder's onstop callback and the completion of
\* sendAudio; isProcessing is true whenever a request is outstanding.
C37_OneRequestInFlight ==
    /\ conc.inflight <= 1
    /\ conc.inflight > 0 => conc.isProcessing

\* C35: a failed voice invocation leaves the durable store unchanged, in
\* both pipelines: when the request ends with an error response after audio
\* validation passed (transcoder, transcription, empty transcript,
\* generation or synthesis failure), the set of sessions, every session's
\* lastActivityAt and every session's messages are as before the request.
FailedAfterValidation ==
    /\ resp.sent /\ ~resp.audio
    /\ loc.failedAt \in {"prepare", "stt", "empty_transcript", "llm", "tts"}

C35_FailureLeavesStore ==
    FailedAfterValidation =>
        /\ store.sessions = InitialStore.sessions
        /\ store.messages = InitialStore.messages

\* C36: termination: when every external call eventually returns or throws,
\* every voice invocation of either pipeline eventually delivers exactly one
\* response (audio or JSON error), and it makes at most 3 calls to each of
\* the three providers, hence at most 9 provider calls in total.
ProviderCallsCapped ==
    /\ \A p \in RetrySteps : prov[p] <= PipelineRetries + 1
    /\ prov.stt + prov.llm + prov.tts <= 3 * (PipelineRetries + 1)

OneResponse == resp.sent => (resp' = resp /\ pc' = "done")

Responded == pc = "done" /\ resp.sent /\ (resp.audio \/ resp.error # "none")

C36_Termination ==
    /\ []ProviderCallsCapped
    /\ [][OneResponse]_vars
    /\ <>[]Responded

C36_Witness ==
    /\ Responded
    /\ \A p \in RetrySteps : prov[p] = PipelineRetries + 1

\* C38: v2 client timeout and server persistence agree: when sendVoice has
\* given up on a request (its 120 s timer fired and it reported 'Request
\* timed out'), no turn of that request is stored: the handler does not
\* persist the turn's messages for a request the client reported as failed.
C38_TimeoutNoPersist ==
    conc.client = "timed_out" => store.messages = InitialStore.messages

====
